---- MODULE Spec2Model ----
\* A model of the provision tool: the CLI entry point (provision/cli.py), the
\* sequencer and its phase functions (provision/steps.py) and the guarded
\* actions on the macOS host (provision/macos.py).
\*
\* The host is one record.  Every guarded action is an operator from a call
\* context (the host, plus what the call has issued and printed so far) to the
\* context after the call; an action of the state machine applies one such
\* operator.  External commands can fail: a command fails when its binary is
\* not on the search path, or when the call's input f (the set of failing
\* command sites of this call) names it.
EXTENDS Integers, Sequences, FiniteSets, TLC

\* ---------------------------------------------------------------- bounds
\* Commands that fail by injection in one behaviour.
MaxFailures == 1
\* Entries of an interface's resolver list in the initial host.
MaxDns == 2

\* ---------------------------------------------------------------- text
\* The text an external command prints, as a sequence of characters, for each
\* output the model distinguishes (keys are the values of the host fields).
OutputText(k) ==
  CASE k = "ver_158" -> <<"o", "t", "h", "e", "r", "/", "t", "h", "i", "r", "d", "/", "v", "1", ".", "5", "8", ".", "2", "-", "t", "1", "2", "3", "4", "5", "6", "7", "8", "9", "0", "a">>
    [] k = "ver_160" -> <<"o", "t", "h", "e", "r", "/", "t", "h", "i", "r", "d", "/", "v", "1", ".", "6", "0", ".", "0", "-", "t", "0", "a">>
    [] k = "ver_plain" -> <<"1", ".", "5", "8", ".", "2">>
    [] k = "ver_short" -> <<"x", "/", "v", "1", ".", "5", "8", "-", "d", "e", "v">>
    [] k = "tag_160" -> <<"v", "1", ".", "6", "0", ".", "0">>
    [] k = "tag_158" -> <<"v", "1", ".", "5", "8", ".", "2">>
    [] k = "tag_plain" -> <<"1", ".", "6", "0", ".", "0">>
    [] k = "tag_empty" -> <<>>
    [] k = "fv_on" -> <<"F", "i", "l", "e", "V", "a", "u", "l", "t", " ", "i", "s", " ", "O", "n", ".">>
    [] k = "fv_off" -> <<"F", "i", "l", "e", "V", "a", "u", "l", "t", " ", "i", "s", " ", "O", "f", "f", ".">>
    [] k = "fv_other" -> <<"D", "e", "f", "e", "r", "r", "e", "d", " ", "e", "n", "a", "b", "l", "e", "m", "e", "n", "t", " ", "a", "p", "p", "e", "a", "r", "s", " ", "t", "o", " ", "b", "e", " ", "a", "c", "t", "i", "v", "e", ".">>
    [] k = "ssh_on" -> <<"R", "e", "m", "o", "t", "e", " ", "L", "o", "g", "i", "n", ":", " ", "O", "n">>
    [] k = "ssh_off" -> <<"R", "e", "m", "o", "t", "e", " ", "L", "o", "g", "i", "n", ":", " ", "O", "f", "f">>
    [] k = "ssh_other" -> <<"R", "e", "m", "o", "t", "e", " ", "L", "o", "g", "i", "n", ":", " ", "u", "n", "k", "n", "o", "w", "n">>
    [] k = "fw_enabled" -> <<"F", "i", "r", "e", "w", "a", "l", "l", " ", "i", "s", " ", "e", "n", "a", "b", "l", "e", "d", ".", " ", "(", "S", "t", "a", "t", "e", " ", "=", " ", "1", ")">>
    [] k = "fw_disabled" -> <<"F", "i", "r", "e", "w", "a", "l", "l", " ", "i", "s", " ", "d", "i", "s", "a", "b", "l", "e", "d", ".", " ", "(", "S", "t", "a", "t", "e", " ", "=", " ", "0", ")">>
    [] k = "fw_other" -> <<"F", "i", "r", "e", "w", "a", "l", "l", " ", "i", "s", " ", "b", "l", "o", "c", "k", "i", "n", "g", " ", "a", "l", "l", ".", " ", "(", "S", "t", "a", "t", "e", " ", "=", " ", "2", ")">>
    [] k = "ts_active" -> <<"1", "0", "0", ".", "6", "4", ".", "0", ".", "1", " ", "m", "a", "c", " ", "a", "l", "i", "c", "e", "@", " ", "m", "a", "c", "O", "S", " ", "a", "c", "t", "i", "v", "e", ";", " ", "d", "i", "r", "e", "c", "t">>
    [] k = "ts_idle" -> <<"1", "0", "0", ".", "6", "4", ".", "0", ".", "1", " ", "m", "a", "c", " ", "a", "l", "i", "c", "e", "@", " ", "m", "a", "c", "O", "S", " ", "-">>
    [] k = "ts_inactive" -> <<"T", "a", "i", "l", "s", "c", "a", "l", "e", " ", "i", "s", " ", "i", "n", "a", "c", "t", "i", "v", "e", ".">>
    [] k = "ts_stopped" -> <<"T", "a", "i", "l", "s", "c", "a", "l", "e", " ", "i", "s", " ", "s", "t", "o", "p", "p", "e", "d", ".">>

PHRASE_FILEVAULT_ON == <<"F", "i", "l", "e", "V", "a", "u", "l", "t", " ", "i", "s", " ", "O", "n">>
PHRASE_SSH_ON == <<"R", "e", "m", "o", "t", "e", " ", "L", "o", "g", "i", "n", ":", " ", "O", "n">>
PHRASE_FW_DISABLED == <<"F", "i", "r", "e", "w", "a", "l", "l", " ", "i", "s", " ", "d", "i", "s", "a", "b", "l", "e", "d">>
PHRASE_DISABLED == <<"d", "i", "s", "a", "b", "l", "e", "d">>
PHRASE_ACTIVE == <<"a", "c", "t", "i", "v", "e">>

\* Python's `pat in text` on strings: pat occurs as a contiguous substring.
Contains(text, pat) ==
  \E i \in 1..(Len(text) - Len(pat) + 1) : SubSeq(text, i, i + Len(pat) - 1) = pat

IsDigit(c) == c \in {"0", "1", "2", "3", "4", "5", "6", "7", "8", "9"}

\* Length of the longest run of digits of text that starts at position j (\d+ is greedy).
RECURSIVE DigitRun(_, _)
DigitRun(text, j) ==
  IF j <= Len(text) /\ IsDigit(text[j]) THEN 1 + DigitRun(text, j + 1) ELSE 0

\* The end position of a match of /v(\d+\.\d+\.\d+) that starts at i, or 0.
VersionMatchEnd(text, i) ==
  IF ~(i + 1 <= Len(text) /\ text[i] = "/" /\ text[i + 1] = "v") THEN 0
  ELSE LET a  == i + 2
           n1 == DigitRun(text, a)
           b  == a + n1 + 1
           n2 == DigitRun(text, b)
           c  == b + n2 + 1
           n3 == DigitRun(text, c)
       IN IF n1 >= 1 /\ a + n1 <= Len(text) /\ text[a + n1] = "."
             /\ n2 >= 1 /\ b + n2 <= Len(text) /\ text[b + n2] = "."
             /\ n3 >= 1
          THEN c + n3 - 1 ELSE 0

\* Python's None for an Optional[str] (no text has an element of more than one character).
NoVersion == <<"None">>

\* re.search(r'/v(\d+\.\d+\.\d+)', output): group 1 of the leftmost match, or
\* NoVersion (None) when there is no match.
ParseInstalledVersion(text) ==
  LET starts == {i \in 1..Len(text) : VersionMatchEnd(text, i) > 0}
  IN IF starts = {} THEN NoVersion
     ELSE LET i == CHOOSE s \in starts : \A t \in starts : s <= t
          IN SubSeq(text, i + 2, VersionMatchEnd(text, i))

\* The release lookup's response: valid JSON or not, and the tag_name it carries
\* (the empty text when the key is missing).
ReleaseResponse(k) ==
  CASE k = "rel_160"     -> [valid |-> TRUE,  tag |-> OutputText("tag_160")]
    [] k = "rel_158"     -> [valid |-> TRUE,  tag |-> OutputText("tag_158")]
    [] k = "rel_plain"   -> [valid |-> TRUE,  tag |-> OutputText("tag_plain")]
    [] k = "rel_notag"   -> [valid |-> TRUE,  tag |-> OutputText("tag_empty")]
    [] k = "rel_badjson" -> [valid |-> FALSE, tag |-> OutputText("tag_empty")]

\* The tag taken as it is, with its leading 'v'.
ParseLatestVersion_keeping_v(resp) ==
  IF ~resp.valid THEN NoVersion
  ELSE IF resp.tag # <<>> THEN resp.tag
  ELSE NoVersion

\* tag[1:] if tag.startswith('v'), else tag, else None for the empty tag.
ParseLatestVersion(resp) ==
  IF ~resp.valid THEN NoVersion
  ELSE IF Len(resp.tag) >= 1 /\ resp.tag[1] = "v" THEN SubSeq(resp.tag, 2, Len(resp.tag))
  ELSE IF resp.tag # <<>> THEN resp.tag
  ELSE NoVersion

\* ---------------------------------------------------------------- the host
TAILSCALE_DNS == "100.100.100.100"

\* interfaces = ["Wi-Fi", "Ethernet"], in the order of the loop.
interfaces == <<"Wi-Fi", "Ethernet">>

DAEMON_PLIST == "/Library/LaunchDaemons/com.tailscale.tailscaled.plist"
TMUX_PLIST == "~/Library/LaunchAgents/com.tmux.main.plist"
LAUNCH_AGENTS_DIR == "~/Library/LaunchAgents"
SCREENSHARING_PLIST == "/System/Library/LaunchDaemons/com.apple.screensharing.plist"
TAILSCALED_PATH == "/usr/local/bin/tailscaled"

\* services_to_check without its first entry (the located tailscaled path).
FixedServices ==
  << "/System/Library/CoreServices/RemoteManagement/ARDAgent.app",
     "/System/Library/CoreServices/UniversalControl.app",
     "/usr/libexec/sharingd",
     "/usr/libexec/rapportd" >>

\* The power settings configure_power_management looks at, in its order.
PowerSettings == <<"sleep", "disksleep", "powernap">>

\* The binaries the Brewfile provides (the Brewfile itself is not among the sources).
BrewfileBins == {"go", "tmux", "colima", "docker"}

AllBins == {"brew", "go", "tailscale", "tailscaled", "tmux", "colima", "docker",
            "reattach-to-user-namespace"}

AllServices == {TAILSCALED_PATH} \cup {FixedServices[i] : i \in 1..Len(FixedServices)}

\* A host on which nothing has been provisioned yet.
FreshHost ==
  [ platform       |-> "Darwin",
    euid_root      |-> TRUE,
    real_user      |-> "alice",
    bins           |-> {},
    pkgs           |-> FALSE,
    path_gobin     |-> FALSE,
    ts_version     |-> "ver_158",
    ts_latest      |-> "rel_160",
    daemon_plist   |-> FALSE,
    ports          |-> {"Wi-Fi", "Ethernet"},
    dns            |-> [i \in {"Wi-Fi", "Ethernet"} |-> <<"8.8.8.8">>],
    agents_dir     |-> FALSE,
    tmux_plist     |-> FALSE,
    launchctl      |-> {},
    env_tmux       |-> FALSE,
    colima_started |-> FALSE,
    colima_running |-> FALSE,
    filevault      |-> "fv_on",
    ssh            |-> "ssh_on",
    firewall       |-> "fw_disabled",
    fw_apps        |-> {},
    fw_blocked     |-> {},
    fw_signed      |-> FALSE,
    fw_stealth     |-> FALSE,
    pm             |-> [s \in {"sleep", "disksleep", "powernap"} |-> "10"],
    docker_host    |-> FALSE,
    docker_ok      |-> FALSE,
    compose_ok     |-> FALSE,
    ts_status      |-> "ts_stopped" ]

\* A host on which every resource is already in its target state.
ProvisionedHost ==
  [ platform       |-> "Darwin",
    euid_root      |-> TRUE,
    real_user      |-> "alice",
    bins           |-> AllBins \ {"reattach-to-user-namespace"},
    pkgs           |-> TRUE,
    path_gobin     |-> FALSE,
    ts_version     |-> "ver_160",
    ts_latest      |-> "rel_160",
    daemon_plist   |-> TRUE,
    ports          |-> {"Wi-Fi", "Ethernet"},
    dns            |-> [i \in {"Wi-Fi", "Ethernet"} |-> <<TAILSCALE_DNS, "8.8.8.8">>],
    agents_dir     |-> TRUE,
    tmux_plist     |-> TRUE,
    launchctl      |-> {"com.tmux.main", "com.apple.screensharing", "com.tailscale.tailscaled"},
    env_tmux       |-> FALSE,
    colima_started |-> TRUE,
    colima_running |-> TRUE,
    filevault      |-> "fv_off",
    ssh            |-> "ssh_off",
    firewall       |-> "fw_enabled",
    fw_apps        |-> AllServices,
    fw_blocked     |-> {},
    fw_signed      |-> TRUE,
    fw_stealth     |-> TRUE,
    pm             |-> [s \in {"sleep", "disksleep", "powernap"} |-> "0"],
    docker_host    |-> TRUE,
    docker_ok      |-> TRUE,
    compose_ok     |-> TRUE,
    ts_status      |-> "ts_active" ]

Baselines == {FreshHost, ProvisionedHost}

\* ---------------------------------------------------------------- initial hosts
Resolvers == {"8.8.8.8", "8.8.4.4", TAILSCALE_DNS}

\* Resolver lists without repetition, of at most MaxDns entries.
ResolverLists ==
  UNION { {s \in [1..n -> Resolvers] : \A i, j \in 1..n : i # j => s[i] # s[j]} : n \in 0..MaxDns }

InstalledOutputs == {"ver_158", "ver_160", "ver_plain", "ver_short"}
ReleaseOutputs == {"rel_160", "rel_158", "rel_plain", "rel_notag", "rel_badjson"}
FileVaultOutputs == {"fv_on", "fv_off", "fv_other"}
SshOutputs == {"ssh_on", "ssh_off", "ssh_other"}
FirewallOutputs == {"fw_enabled", "fw_disabled", "fw_other"}
StatusOutputs == {"ts_active", "ts_idle", "ts_inactive", "ts_stopped"}
PowerValues == {"absent", "0", "10"}
RealUsers == {"", "root", "alice"}

\* b with the binaries of B replaced by those of its subset S.
WithBins(b, B, S) == [b EXCEPT !.bins = (@ \ B) \cup S]

\* The hosts a guarded action is called on directly: a baseline in which the
\* part of the host the action reads takes every value.
DirectHosts(fn, b) ==
  CASE fn = "install_homebrew" ->
         {WithBins(b, {"brew"}, S) : S \in SUBSET {"brew"}}
    [] fn = "install_brewfile_packages" ->
         {[WithBins(b, {"brew"}, S) EXCEPT !.pkgs = p] : S \in SUBSET {"brew"}, p \in BOOLEAN}
    [] fn = "install_tailscale" ->
         {[WithBins(b, {"go", "tailscale", "tailscaled"}, S) EXCEPT !.ts_version = v, !.ts_latest = l] :
            S \in SUBSET {"go", "tailscale", "tailscaled"}, v \in InstalledOutputs, l \in ReleaseOutputs}
    [] fn = "install_tailscale_daemon" ->
         {[WithBins(b, {"tailscaled"}, S) EXCEPT !.daemon_plist = p] :
            S \in SUBSET {"tailscaled"}, p \in BOOLEAN}
    [] fn = "configure_tailscale_dns" ->
         {[b EXCEPT !.ports = p, !.dns = [i \in {"Wi-Fi", "Ethernet"} |-> IF i = "Wi-Fi" THEN w ELSE e]] :
            p \in SUBSET {"Wi-Fi", "Ethernet"}, w \in ResolverLists,
            e \in {l \in ResolverLists : Len(l) <= 1}}
    [] fn = "setup_tmux_service" ->
         {[WithBins(b, {"tmux"}, S) EXCEPT !.real_user = u, !.agents_dir = d, !.tmux_plist = d /\ p,
                                           !.launchctl = (@ \ {"com.tmux.main"}) \cup L] :
            S \in SUBSET {"tmux"}, u \in RealUsers, d \in BOOLEAN, p \in BOOLEAN,
            L \in SUBSET {"com.tmux.main"}}
    [] fn = "setup_colima_service" ->
         {[WithBins(b, {"brew", "colima", "reattach-to-user-namespace"}, S)
             EXCEPT !.real_user = u, !.env_tmux = t, !.colima_started = s, !.colima_running = r] :
            S \in SUBSET {"brew", "colima", "reattach-to-user-namespace"}, u \in RealUsers,
            t \in BOOLEAN, s \in BOOLEAN, r \in BOOLEAN}
    [] fn = "manage_filevault" ->
         {[b EXCEPT !.filevault = v] : v \in FileVaultOutputs}
    [] fn = "disable_ssh" ->
         {[b EXCEPT !.ssh = v] : v \in SshOutputs}
    [] fn = "configure_firewall" ->
         {[WithBins(b, {"tailscaled"}, S) EXCEPT !.firewall = v, !.fw_apps = A \cup B, !.fw_blocked = {}] :
            S \in SUBSET {"tailscaled"}, v \in FirewallOutputs,
            A \in SUBSET {TAILSCALED_PATH, FixedServices[1]},
            B \in {{}, AllServices \ {TAILSCALED_PATH, FixedServices[1]}}}
         \cup {[b EXCEPT !.fw_apps = AllServices, !.fw_blocked = B] :
                 B \in SUBSET {TAILSCALED_PATH, FixedServices[1]}}
    [] fn = "enable_screen_sharing" ->
         {[b EXCEPT !.launchctl = (@ \ {"com.apple.screensharing"}) \cup L] :
            L \in SUBSET {"com.apple.screensharing"}}
    [] fn = "configure_power_management" ->
         {[b EXCEPT !.pm = p] : p \in [{"sleep", "disksleep", "powernap"} -> PowerValues]}
    [] fn = "verify_docker_stack" ->
         {[WithBins(b, {"colima", "docker"}, S)
             EXCEPT !.docker_host = h, !.colima_running = r, !.docker_ok = d, !.compose_ok = c] :
            S \in SUBSET {"colima", "docker"}, h \in BOOLEAN, r \in BOOLEAN, d \in BOOLEAN, c \in BOOLEAN}
    [] fn = "verify_tailscale_connectivity" ->
         {[WithBins(b, {"tailscale"}, S) EXCEPT !.ts_status = s] :
            S \in SUBSET {"tailscale"}, s \in StatusOutputs}

\* A host put together from four parts (packages, mesh VPN, user services,
\* root-owned settings), each as on a given host.
MixedHost(d, t, s, r) ==
  [ platform       |-> "Darwin",
    euid_root      |-> TRUE,
    real_user      |-> "alice",
    bins           |-> (d.bins \cap {"brew", "go", "tmux", "colima", "docker", "reattach-to-user-namespace"})
                       \cup (t.bins \cap {"tailscale", "tailscaled"}),
    pkgs           |-> d.pkgs,
    path_gobin     |-> FALSE,
    ts_version     |-> t.ts_version,
    ts_latest      |-> t.ts_latest,
    daemon_plist   |-> t.daemon_plist,
    ports          |-> t.ports,
    dns            |-> t.dns,
    agents_dir     |-> s.agents_dir,
    tmux_plist     |-> s.tmux_plist,
    launchctl      |-> (t.launchctl \cap {"com.tailscale.tailscaled"})
                       \cup (s.launchctl \cap {"com.tmux.main"})
                       \cup (r.launchctl \cap {"com.apple.screensharing"}),
    env_tmux       |-> FALSE,
    colima_started |-> s.colima_started,
    colima_running |-> s.colima_running,
    filevault      |-> r.filevault,
    ssh            |-> r.ssh,
    firewall       |-> r.firewall,
    fw_apps        |-> r.fw_apps,
    fw_blocked     |-> {},
    fw_signed      |-> r.fw_signed,
    fw_stealth     |-> r.fw_stealth,
    pm             |-> r.pm,
    docker_host    |-> s.docker_host,
    docker_ok      |-> s.docker_ok,
    compose_ok     |-> s.compose_ok,
    ts_status      |-> t.ts_status ]

Platforms == {"Darwin", "Linux", "Windows"}

\* The hosts a whole run starts on: the software (packages, mesh VPN) as on one
\* baseline and the configuration (services, root-owned settings) as on one;
\* the baselines with each real user, and on each platform; the provisioned
\* host with the firewall on but without its exceptions; root or not.
RunHosts ==
  LET mixed == {MixedHost(a, a, b, b) : a \in Baselines, b \in Baselines}
      users == {[b EXCEPT !.real_user = u] : b \in Baselines, u \in RealUsers}
      plats == {[b EXCEPT !.platform = p] : b \in Baselines, p \in Platforms}
      gaps  == {[ProvisionedHost EXCEPT !.fw_apps = {}]}
  IN {[h EXCEPT !.euid_root = e] : h \in mixed \cup users \cup plats \cup gaps, e \in BOOLEAN}

\* ---------------------------------------------------------------- call contexts
\* What one call of a guarded action has done so far: the host as it left it,
\* the state-changing commands it issued, the notices it printed, the read-only
\* inspections it made, the number of commands that failed in it, whether an
\* exception left it, and its return value.
NewCall(h) ==
  [ host |-> h, cmds |-> <<>>, notes |-> <<>>, probes |-> <<>>,
    errs |-> 0, raised |-> FALSE, ret |-> "None" ]

log_info(c, m) == [c EXCEPT !.notes = Append(@, <<"[INFO]">> \o m)]

log_action(c, m) == [c EXCEPT !.notes = Append(@, <<"->">> \o m)]

\* A read-only inspection (a status command, a lookup on the search path, a file test).
Probe(c, p) == [c EXCEPT !.probes = Append(@, p)]

\* A state-changing command is spawned.
Issue(c, cmd) == [c EXCEPT !.cmds = Append(@, cmd)]

SetHost(c, h) == [c EXCEPT !.host = h]

\* A command failed and the exception was caught in the action.
Failed(c) == [c EXCEPT !.errs = @ + 1]

\* An exception leaves the action.
Throw(c) == [c EXCEPT !.raised = TRUE]

Return(c, v) == [c EXCEPT !.ret = v]

\* sh raises CommandNotFound for a program that is not on the search path.
Missing(c, bin) == bin \notin c.host.bins

IsPreview(note) == Len(note) >= 2 /\ note[2] = "[DRY RUN]"

\* ---------------------------------------------------------------- guarded actions
check_homebrew(h) == "brew" \in h.bins

install_homebrew(c0, dry_run, f) ==
  LET c == Probe(c0, <<"which", "brew">>)
  IN IF check_homebrew(c.host) THEN log_info(c, <<"Homebrew is already installed.">>)
     ELSE IF dry_run THEN log_action(c, <<"[DRY RUN]", "Would install Homebrew">>)
     ELSE LET c1 == Probe(log_action(c, <<"Homebrew not found. Installing Homebrew...">>),
                          <<"curl", "-fsSL", "install.sh">>)
          IN IF <<"curl", "install.sh">> \in f THEN Throw(Failed(c1))
             ELSE LET c2 == Issue(c1, <<"bash", "-c", "install.sh">>)
                  IN IF <<"bash", "install.sh">> \in f THEN Throw(Failed(c2))
                     ELSE SetHost(c2, [c2.host EXCEPT !.bins = @ \cup {"brew"}])

install_brewfile_packages(c, dry_run, f) ==
  IF dry_run THEN log_action(c, <<"[DRY RUN]", "Would install packages from Brewfile">>)
  ELSE LET c1 == log_action(c, <<"Installing packages from Brewfile...">>)
       IN IF Missing(c1, "brew") THEN Throw(Failed(c1))
          ELSE LET c2 == Issue(c1, <<"brew", "bundle">>)
               IN IF <<"brew", "bundle">> \in f THEN Throw(Failed(c2))
                  ELSE SetHost(c2, [c2.host EXCEPT !.pkgs = TRUE, !.bins = @ \cup BrewfileBins])

check_tailscale(h) == "tailscaled" \in h.bins

\* None when the version command fails (or is missing), else the parsed version.
get_installed_tailscale_version(h, f) ==
  IF "tailscale" \notin h.bins \/ <<"tailscale", "version">> \in f THEN NoVersion
  ELSE ParseInstalledVersion(OutputText(h.ts_version))

get_latest_tailscale_version(h, f) ==
  IF <<"curl", "releases/latest">> \in f THEN NoVersion
  ELSE ParseLatestVersion(ReleaseResponse(h.ts_latest))

\* The comparison failing closed: an unknown latest version counts as outdated.
is_tailscale_up_to_date_fail_closed(h, f) ==
  LET installed == get_installed_tailscale_version(h, f)
  IN IF installed = NoVersion THEN FALSE
     ELSE LET latest == get_latest_tailscale_version(h, f)
          IN IF latest = NoVersion THEN FALSE ELSE installed = latest

is_tailscale_up_to_date(h, f) ==
  LET installed == get_installed_tailscale_version(h, f)
  IN IF installed = NoVersion THEN FALSE
     ELSE LET latest == get_latest_tailscale_version(h, f)
          IN IF latest = NoVersion THEN TRUE ELSE installed = latest

\* The commands is_tailscale_up_to_date runs: the release lookup only when the
\* installed version was determined.
UpToDateProbes(c, f) ==
  LET c1 == Probe(c, <<"tailscale", "version">>)
  IN IF get_installed_tailscale_version(c.host, f) = NoVersion THEN c1
     ELSE Probe(c1, <<"curl", "-s", "releases/latest">>)

\* built: what the version command prints for the binaries built from @main.
install_tailscale(c0, dry_run, f, built) ==
  LET c     == Probe(c0, <<"which", "tailscaled">>)
      found == check_tailscale(c.host)
      cu    == IF found THEN UpToDateProbes(c, f) ELSE c
  IN IF found /\ is_tailscale_up_to_date(c.host, f)
       THEN log_info(cu, <<"Tailscale is already installed and up to date.">>)
     ELSE IF dry_run
       THEN IF found THEN log_action(cu, <<"[DRY RUN]", "Would update Tailscale from source">>)
            ELSE log_action(cu, <<"[DRY RUN]", "Would install Tailscale from source">>)
     ELSE LET c1 == IF found THEN log_action(cu, <<"Tailscale is outdated. Updating from source...">>)
                    ELSE log_action(cu, <<"tailscaled not found. Installing Tailscale from source...">>)
              c2 == Probe(c1, <<"go", "env", "GOPATH">>)
          IN IF Missing(c2, "go") \/ <<"go", "env">> \in f THEN Throw(Failed(c2))
             ELSE LET c3 == SetHost(c2, [c2.host EXCEPT !.path_gobin = TRUE])
                      c4 == Issue(c3, <<"go", "install", "tailscale@main", "tailscaled@main">>)
                  IN IF <<"go", "install">> \in f THEN Throw(Failed(c4))
                     ELSE SetHost(c4, [c4.host EXCEPT !.bins = @ \cup {"tailscale", "tailscaled"},
                                                      !.ts_version = built])

\* sh.which("tailscaled") succeeded.
get_tailscaled_path(h, f) ==
  IF "tailscaled" \in h.bins /\ <<"which", "tailscaled">> \notin f THEN TAILSCALED_PATH ELSE "None"

\* install_tailscale_daemon locating the binary before its dry_run test.
install_tailscale_daemon_lookup_first(c0, dry_run, f) ==
  LET c == Probe(c0, <<"exists", DAEMON_PLIST>>)
  IN IF c.host.daemon_plist THEN log_info(c, <<"Tailscale system daemon is already installed.">>)
     ELSE LET c1   == Probe(c, <<"which", "tailscaled">>)
              path == get_tailscaled_path(c.host, f)
          IN IF path = "None" THEN Throw(Failed(c1))
             ELSE IF dry_run THEN log_action(c1, <<"[DRY RUN]", "Would install Tailscale system daemon">>)
             ELSE LET c2 == Issue(log_action(c1, <<"Tailscale system daemon not found. Installing...">>),
                                  <<"sudo", path, "install-system-daemon">>)
                  IN IF <<"tailscaled", "install-system-daemon">> \in f THEN Throw(Failed(c2))
                     ELSE SetHost(c2, [c2.host EXCEPT !.daemon_plist = TRUE,
                                                      !.launchctl = @ \cup {"com.tailscale.tailscaled"}])

install_tailscale_daemon(c0, dry_run, f) ==
  LET c == Probe(c0, <<"exists", DAEMON_PLIST>>)
  IN IF c.host.daemon_plist THEN log_info(c, <<"Tailscale system daemon is already installed.">>)
     ELSE IF dry_run THEN log_action(c, <<"[DRY RUN]", "Would install Tailscale system daemon">>)
     ELSE LET c1   == Probe(c, <<"which", "tailscaled">>)
              path == get_tailscaled_path(c.host, f)
          IN IF path = "None" THEN Throw(Failed(c1))
             ELSE LET c2 == Issue(log_action(c1, <<"Tailscale system daemon not found. Installing...">>),
                                  <<"sudo", path, "install-system-daemon">>)
                  IN IF <<"tailscaled", "install-system-daemon">> \in f THEN Throw(Failed(c2))
                     ELSE SetHost(c2, [c2.host EXCEPT !.daemon_plist = TRUE,
                                                      !.launchctl = @ \cup {"com.tailscale.tailscaled"}])

\* The loop body looking for the sentinel at the head of the list only.
configure_dns_interface_head_only(c, dry_run, f, interface) ==
  IF interface \notin c.host.ports THEN c
  ELSE LET c1 == Probe(c, <<"networksetup", "-getdnsservers", interface>>)
           current_dns == c.host.dns[interface]
       IN IF <<"getdnsservers", interface>> \in f THEN Failed(c1)
          ELSE IF Len(current_dns) >= 1 /\ current_dns[1] = TAILSCALE_DNS
            THEN log_info(c1, <<"Tailscale DNS already configured for", interface>>)
          ELSE IF dry_run
            THEN log_action(c1, <<"[DRY RUN]", "Would configure Tailscale DNS for", interface>>)
          ELSE LET c2 == Probe(c1, <<"networksetup", "-getdnsservers", interface>>)
                   again == <<"getdnsservers again", interface>> \in f
                   current_dns_list == IF again THEN <<>> ELSE current_dns
                   new_dns_list == <<TAILSCALE_DNS>> \o current_dns_list
                   c3 == log_action(IF again THEN Failed(c2) ELSE c2,
                                    <<"Adding Tailscale DNS to", interface>>)
                   c4 == Issue(c3, <<"sudo", "networksetup", "-setdnsservers", interface>> \o new_dns_list)
               IN IF <<"setdnsservers", interface>> \in f THEN Failed(c4)
                  ELSE SetHost(c4, [c4.host EXCEPT !.dns[interface] = new_dns_list])

\* One iteration of the loop over interfaces.
configure_dns_interface(c, dry_run, f, interface) ==
  IF interface \notin c.host.ports THEN c
  ELSE LET c1 == Probe(c, <<"networksetup", "-getdnsservers", interface>>)
           current_dns == c.host.dns[interface]
       IN IF <<"getdnsservers", interface>> \in f THEN Failed(c1)
          ELSE IF \E i \in 1..Len(current_dns) : current_dns[i] = TAILSCALE_DNS
            THEN log_info(c1, <<"Tailscale DNS already configured for", interface>>)
          ELSE IF dry_run
            THEN log_action(c1, <<"[DRY RUN]", "Would configure Tailscale DNS for", interface>>)
          ELSE LET c2 == Probe(c1, <<"networksetup", "-getdnsservers", interface>>)
                   again == <<"getdnsservers again", interface>> \in f
                   current_dns_list == IF again THEN <<>> ELSE current_dns
                   new_dns_list == <<TAILSCALE_DNS>> \o current_dns_list
                   c3 == log_action(IF again THEN Failed(c2) ELSE c2,
                                    <<"Adding Tailscale DNS to", interface>>)
                   c4 == Issue(c3, <<"sudo", "networksetup", "-setdnsservers", interface>> \o new_dns_list)
               IN IF <<"setdnsservers", interface>> \in f THEN Failed(c4)
                  ELSE SetHost(c4, [c4.host EXCEPT !.dns[interface] = new_dns_list])

\* The loop over the interfaces without its try/except: the first failure
\* leaves the action.
RECURSIVE configure_dns_loop_uncaught(_, _, _, _)
configure_dns_loop_uncaught(c, dry_run, f, i) ==
  IF i > Len(interfaces) THEN c
  ELSE LET c1 == configure_dns_interface(c, dry_run, f, interfaces[i])
       IN IF c1.errs > c.errs THEN Throw(c1)
          ELSE configure_dns_loop_uncaught(c1, dry_run, f, i + 1)

RECURSIVE configure_dns_loop(_, _, _, _)
configure_dns_loop(c, dry_run, f, i) ==
  IF i > Len(interfaces) THEN c
  ELSE configure_dns_loop(configure_dns_interface(c, dry_run, f, interfaces[i]), dry_run, f, i + 1)

configure_tailscale_dns(c0, dry_run, f) ==
  LET c == Probe(c0, <<"networksetup", "-listallhardwareports">>)
  IN IF <<"listallhardwareports", "">> \in f THEN Throw(Failed(c))
     ELSE configure_dns_loop(c, dry_run, f, 1)

\* get_real_user() is empty or "root".
NoRealUser(h) == h.real_user = "" \/ h.real_user = "root"

\* The last part of setup_tmux_service: load the service unless it is listed.
tmux_load(c, f) ==
  LET c1 == Probe(c, <<"launchctl", "list">>)
  IN IF <<"launchctl", "list">> \in f
       THEN log_action(Failed(c1), <<"Failed to load tmux service">>)
     ELSE IF "com.tmux.main" \in c1.host.launchctl
       THEN log_info(c1, <<"tmux service is already loaded.">>)
     ELSE LET c2 == Issue(log_action(c1, <<"Loading tmux service...">>),
                          <<"sudo", "-u", c1.host.real_user, "launchctl", "load", TMUX_PLIST>>)
          IN IF <<"launchctl", "load">> \in f
               THEN log_action(Failed(c2), <<"Failed to load tmux service">>)
             ELSE log_info(SetHost(c2, [c2.host EXCEPT !.launchctl = @ \cup {"com.tmux.main"}]),
                           <<"tmux service loaded successfully.">>)

\* The middle part of setup_tmux_service: write the service plist unless it exists.
tmux_write_plist(c, f) ==
  LET c1 == Probe(c, <<"exists", TMUX_PLIST>>)
  IN IF c1.host.tmux_plist THEN tmux_load(log_info(c1, <<"tmux service plist already exists.">>), f)
     ELSE LET c2 == Issue(log_action(c1, <<"Creating tmux service plist...">>), <<"write", TMUX_PLIST>>)
              c3 == SetHost(c2, [c2.host EXCEPT !.tmux_plist = TRUE])
              c4 == Issue(c3, <<"sudo", "chown", c3.host.real_user, TMUX_PLIST>>)
          IN IF <<"write", TMUX_PLIST>> \in f THEN Throw(Failed(c2))
             ELSE IF <<"chown", TMUX_PLIST>> \in f THEN Throw(Failed(c4))
             ELSE tmux_load(c4, f)

setup_tmux_service(c0, dry_run, f) ==
  IF dry_run THEN log_action(c0, <<"[DRY RUN]", "Would setup tmux service">>)
  ELSE LET c == Probe(c0, <<"env", "SUDO_USER", "USER", "HOME">>)
       IN IF NoRealUser(c.host) THEN log_info(c, <<"Skipping tmux service for root user.">>)
          ELSE LET c1 == Probe(log_info(c, <<"Setting up tmux service for user:", c.host.real_user>>),
                               <<"exists", LAUNCH_AGENTS_DIR>>)
                   c2 == Issue(log_action(c1, <<"Creating LaunchAgents directory...">>),
                               <<"sudo", "-u", c1.host.real_user, "mkdir", "-p", LAUNCH_AGENTS_DIR>>)
                   c3 == IF c1.host.agents_dir THEN c1
                         ELSE SetHost(c2, [c2.host EXCEPT !.agents_dir = TRUE])
                   c4 == Probe(c3, <<"which", "tmux">>)
               IN IF ~c1.host.agents_dir /\ <<"mkdir", LAUNCH_AGENTS_DIR>> \in f THEN Throw(Failed(c2))
                  ELSE IF Missing(c4, "tmux") \/ <<"which", "tmux">> \in f THEN Throw(Failed(c4))
                  ELSE tmux_write_plist(log_info(c4, <<"Using tmux found at:", "tmux">>), f)

\* The last part of setup_colima_service: start the service and look at its status.
colima_start(c, f) ==
  LET c1 == log_action(c, <<"Starting Colima service via Homebrew services...">>)
      c2 == Issue(c1, <<"brew", "services", "start", "colima">>)
  IN IF Missing(c1, "brew") THEN log_action(Failed(c1), <<"Failed to start Colima service">>)
     ELSE IF <<"brew", "services start">> \in f
       THEN log_action(Failed(c2), <<"Failed to start Colima service">>)
     ELSE LET c3 == log_info(SetHost(c2, [c2.host EXCEPT !.colima_started = TRUE,
                                                         !.colima_running = "colima" \in c2.host.bins]),
                             <<"Colima service started successfully.">>)
              c4 == Probe(c3, <<"colima", "status">>)
          IN IF Missing(c4, "colima") \/ ~c4.host.colima_running \/ <<"colima", "status">> \in f
               THEN log_action(log_action(Failed(c4),
                       <<"WARNING: Colima service started but Colima is not yet ready.">>),
                       <<"It may take a moment to fully initialize.">>)
             ELSE log_info(c4, <<"Colima is running.">>)

setup_colima_service(c0, dry_run, f) ==
  IF dry_run THEN log_action(c0, <<"[DRY RUN]", "Would setup Colima service">>)
  ELSE LET c == Probe(c0, <<"env", "SUDO_USER", "USER">>)
       IN IF NoRealUser(c.host) THEN log_info(c, <<"Skipping Colima service for root user.">>)
          ELSE LET c1 == Probe(log_info(c, <<"Setting up Colima service...">>),
                               <<"env", "TMUX", "which", "reattach-to-user-namespace">>)
                   need == c1.host.env_tmux /\ "reattach-to-user-namespace" \notin c1.host.bins
                   c2 == log_action(c1, <<"Installing reattach-to-user-namespace for tmux compatibility...">>)
                   c3 == Issue(c2, <<"brew", "install", "reattach-to-user-namespace">>)
                   c4 == IF need
                         THEN SetHost(c3, [c3.host EXCEPT !.bins = @ \cup {"reattach-to-user-namespace"}])
                         ELSE c1
                   c5 == Probe(c4, <<"brew", "services", "list">>)
                   listed == ~Missing(c5, "brew") /\ <<"brew", "services list">> \notin f
               IN IF need /\ Missing(c2, "brew") THEN Throw(Failed(c2))
                  ELSE IF need /\ <<"brew", "install">> \in f THEN Throw(Failed(c3))
                  ELSE IF listed /\ c5.host.colima_started
                    THEN log_info(c5, <<"Colima service is already running.">>)
                  ELSE colima_start(IF listed THEN c5 ELSE Failed(c5), f)

manage_filevault(c0, dry_run, f) ==
  LET c == Probe(c0, <<"sudo", "fdesetup", "status">>)
  IN IF <<"fdesetup", "status">> \in f THEN log_action(Failed(c), <<"Failed to manage FileVault">>)
     ELSE IF Contains(OutputText(c.host.filevault), PHRASE_FILEVAULT_ON)
       THEN IF dry_run THEN log_action(c, <<"[DRY RUN]", "Would disable FileVault">>)
            ELSE LET c1 == Issue(log_action(c, <<"FileVault is enabled. Disabling for headless boot...">>),
                                 <<"sudo", "fdesetup", "disable">>)
                 IN IF <<"fdesetup", "disable">> \in f
                      THEN log_action(Failed(c1), <<"Failed to manage FileVault">>)
                    ELSE SetHost(c1, [c1.host EXCEPT !.filevault = "fv_off"])
     ELSE log_info(c, <<"FileVault is already disabled.">>)

\* disable_ssh switching Remote Login off unless the status says it is off.
disable_ssh_unless_off(c0, dry_run, f) ==
  LET c == Probe(c0, <<"sudo", "systemsetup", "-getremotelogin">>)
  IN IF <<"systemsetup", "-getremotelogin">> \in f THEN log_action(Failed(c), <<"Failed to disable SSH">>)
     ELSE IF ~Contains(OutputText(c.host.ssh), OutputText("ssh_off"))
       THEN IF dry_run THEN log_action(c, <<"[DRY RUN]", "Would disable SSH (Remote Login)">>)
            ELSE LET c1 == Issue(log_action(c, <<"Standard SSH (Remote Login) is enabled. Disabling...">>),
                                 <<"sudo", "systemsetup", "-setremotelogin", "off">>)
                 IN IF <<"systemsetup", "-setremotelogin">> \in f
                      THEN log_action(Failed(c1), <<"Failed to disable SSH">>)
                    ELSE SetHost(c1, [c1.host EXCEPT !.ssh = "ssh_off"])
     ELSE log_info(c, <<"Standard SSH (Remote Login) is already disabled.">>)

disable_ssh(c0, dry_run, f) ==
  LET c == Probe(c0, <<"sudo", "systemsetup", "-getremotelogin">>)
  IN IF <<"systemsetup", "-getremotelogin">> \in f THEN log_action(Failed(c), <<"Failed to disable SSH">>)
     ELSE IF Contains(OutputText(c.host.ssh), PHRASE_SSH_ON)
       THEN IF dry_run THEN log_action(c, <<"[DRY RUN]", "Would disable SSH (Remote Login)">>)
            ELSE LET c1 == Issue(log_action(c, <<"Standard SSH (Remote Login) is enabled. Disabling...">>),
                                 <<"sudo", "systemsetup", "-setremotelogin", "off">>)
                 IN IF <<"systemsetup", "-setremotelogin">> \in f
                      THEN log_action(Failed(c1), <<"Failed to disable SSH">>)
                    ELSE SetHost(c1, [c1.host EXCEPT !.ssh = "ssh_off"])
     ELSE log_info(c, <<"Standard SSH (Remote Login) is already disabled.">>)

\* One iteration of the loop over services_to_check ("None": tailscaled was not located).
firewall_exception(c, f, service_path) ==
  IF service_path = "None" THEN c
  ELSE LET c1 == Probe(c, <<"socketfilterfw", "--listapps">>)
           c2 == Issue(log_action(c1, <<"Adding firewall exception for:", service_path>>),
                       <<"socketfilterfw", "--add", service_path>>)
           listed == service_path \in c1.host.fw_apps
           c3 == IF listed THEN c1 ELSE SetHost(c2, [c2.host EXCEPT !.fw_apps = @ \cup {service_path}])
           c4 == Issue(c3, <<"socketfilterfw", "--unblockapp", service_path>>)
       IN IF <<"--listapps", service_path>> \in f THEN Failed(c1)
          ELSE IF ~listed /\ <<"--add", service_path>> \in f THEN Failed(c2)
          ELSE IF <<"--unblockapp", service_path>> \in f THEN Failed(c4)
          ELSE SetHost(c4, [c4.host EXCEPT !.fw_blocked = @ \ {service_path}])

\* The loop over services_to_check without its inner try/except: the first
\* failure ends the loop.
RECURSIVE firewall_exceptions_loop_uncaught(_, _, _, _)
firewall_exceptions_loop_uncaught(c, f, services_to_check, i) ==
  IF i > Len(services_to_check) THEN c
  ELSE LET c1 == firewall_exception(c, f, services_to_check[i])
       IN IF c1.errs > c.errs THEN c1
          ELSE firewall_exceptions_loop_uncaught(c1, f, services_to_check, i + 1)

RECURSIVE firewall_exceptions_loop(_, _, _, _)
firewall_exceptions_loop(c, f, services_to_check, i) ==
  IF i > Len(services_to_check) THEN c
  ELSE firewall_exceptions_loop(firewall_exception(c, f, services_to_check[i]), f,
                                services_to_check, i + 1)

\* configure_firewall from "Configure firewall exceptions" on.
firewall_exceptions(c, f) ==
  LET c1 == Probe(log_info(c, <<"Verifying firewall exceptions for continuity services...">>),
                  <<"which", "tailscaled">>)
      tailscaled_path == get_tailscaled_path(c.host, f)
      c2 == IF tailscaled_path = "None"
            THEN log_action(Failed(c1), <<"WARNING: tailscaled path not found, skipping firewall exception">>)
            ELSE c1
  IN log_info(firewall_exceptions_loop(c2, f, <<tailscaled_path>> \o FixedServices, 1),
              <<"Firewall exceptions are configured.">>)

\* The three commands that switch the firewall on; the first that fails ends the action.
firewall_enable(c, f) ==
  LET c1 == Issue(log_action(c, <<"Firewall is disabled. Enabling firewall...">>),
                  <<"socketfilterfw", "--setglobalstate", "on">>)
      c2 == Issue(SetHost(c1, [c1.host EXCEPT !.firewall = "fw_enabled"]),
                  <<"socketfilterfw", "--setallowsigned", "on">>)
      c3 == Issue(SetHost(c2, [c2.host EXCEPT !.fw_signed = TRUE]),
                  <<"socketfilterfw", "--setstealthmode", "on">>)
  IN IF <<"socketfilterfw", "--setglobalstate">> \in f
       THEN log_action(Failed(c1), <<"Failed to configure firewall">>)
     ELSE IF <<"socketfilterfw", "--setallowsigned">> \in f
       THEN log_action(Failed(c2), <<"Failed to configure firewall">>)
     ELSE IF <<"socketfilterfw", "--setstealthmode">> \in f
       THEN log_action(Failed(c3), <<"Failed to configure firewall">>)
     ELSE firewall_exceptions(SetHost(c3, [c3.host EXCEPT !.fw_stealth = TRUE]), f)

\* configure_firewall without the "if dry_run: return" that follows the status test.
configure_firewall_without_dry_return(c0, dry_run, f) ==
  LET c == Probe(c0, <<"socketfilterfw", "--getglobalstate">>)
      firewall_status == OutputText(c.host.firewall)
  IN IF <<"socketfilterfw", "--getglobalstate">> \in f
       THEN log_action(Failed(c), <<"Failed to configure firewall">>)
     ELSE IF Contains(firewall_status, PHRASE_FW_DISABLED) \/ Contains(firewall_status, PHRASE_DISABLED)
       THEN IF dry_run THEN log_action(c, <<"[DRY RUN]", "Would enable and configure firewall">>)
            ELSE firewall_enable(c, f)
     ELSE firewall_exceptions(log_info(c, <<"Firewall is already enabled.">>), f)

configure_firewall(c0, dry_run, f) ==
  LET c == Probe(c0, <<"socketfilterfw", "--getglobalstate">>)
      firewall_status == OutputText(c.host.firewall)
  IN IF <<"socketfilterfw", "--getglobalstate">> \in f
       THEN log_action(Failed(c), <<"Failed to configure firewall">>)
     ELSE IF Contains(firewall_status, PHRASE_FW_DISABLED) \/ Contains(firewall_status, PHRASE_DISABLED)
       THEN IF dry_run THEN log_action(c, <<"[DRY RUN]", "Would enable and configure firewall">>)
            ELSE firewall_enable(c, f)
     ELSE IF dry_run THEN log_info(c, <<"Firewall is already enabled.">>)
     ELSE firewall_exceptions(log_info(c, <<"Firewall is already enabled.">>), f)

enable_screen_sharing(c0, dry_run, f) ==
  LET c == Probe(c0, <<"sudo", "launchctl", "list">>)
  IN IF <<"sudo launchctl", "list">> \in f
       THEN log_action(Failed(c), <<"Failed to enable Screen Sharing">>)
     ELSE IF "com.apple.screensharing" \in c.host.launchctl
       THEN log_info(c, <<"Screen Sharing service is already enabled.">>)
     ELSE IF dry_run THEN log_action(c, <<"[DRY RUN]", "Would enable Screen Sharing service">>)
     ELSE LET c1 == Issue(log_action(c, <<"Screen Sharing service is not loaded. Enabling...">>),
                          <<"sudo", "launchctl", "load", "-w", SCREENSHARING_PLIST>>)
          IN IF <<"sudo launchctl", "load">> \in f
               THEN log_action(Failed(c1), <<"Failed to enable Screen Sharing">>)
             ELSE SetHost(c1, [c1.host EXCEPT !.launchctl = @ \cup {"com.apple.screensharing"}])

\* changes_needed taking a setting that pmset does not report as one to change.
changes_needed_including_absent(h) ==
  SelectSeq(PowerSettings, LAMBDA s : h.pm[s] # "0")

\* The settings whose reported value is present and not "0", in the order of the checks.
changes_needed(h) ==
  SelectSeq(PowerSettings, LAMBDA s : h.pm[s] # "absent" /\ h.pm[s] # "0")

PowerLogMessage(s) ==
  CASE s = "sleep" -> "Disabling system sleep..."
    [] s = "disksleep" -> "Disabling disk sleep..."
    [] s = "powernap" -> "Disabling Power Nap..."

PowerPreview(s) ==
  CASE s = "sleep" -> "Would disable system sleep"
    [] s = "disksleep" -> "Would disable disk sleep"
    [] s = "powernap" -> "Would disable Power Nap"

RECURSIVE power_preview_loop(_, _, _)
power_preview_loop(c, changes, i) ==
  IF i > Len(changes) THEN c
  ELSE power_preview_loop(log_action(c, <<"[DRY RUN]", PowerPreview(changes[i])>>), changes, i + 1)

\* "Apply changes": the first pmset that fails ends the action.
RECURSIVE power_apply_loop(_, _, _, _)
power_apply_loop(c, f, changes, i) ==
  IF i > Len(changes) THEN log_info(c, <<"Power settings configured to prevent sleep.">>)
  ELSE LET c1 == Issue(log_action(c, <<PowerLogMessage(changes[i])>>), <<"pmset", "-a", changes[i], "0">>)
       IN IF <<"pmset -a", changes[i]>> \in f
            THEN log_action(Failed(c1), <<"Failed to configure power management">>)
          ELSE power_apply_loop(SetHost(c1, [c1.host EXCEPT !.pm[changes[i]] = "0"]), f, changes, i + 1)

configure_power_management(c0, dry_run, f) ==
  LET c == Probe(c0, <<"pmset", "-g">>)
      changes == changes_needed(c.host)
  IN IF <<"pmset", "-g">> \in f
       THEN log_action(Failed(c), <<"Failed to configure power management">>)
     ELSE IF changes = <<>>
       THEN log_info(c, <<"Power settings are already configured to prevent sleep.">>)
     ELSE IF dry_run THEN power_preview_loop(c, changes, 1)
     ELSE power_apply_loop(c, f, changes, 1)

\* ---------------------------------------------------------------- verification
docker_checks(c, f) ==
  LET c1 == Probe(log_info(c, <<"Colima runtime is running.">>), <<"docker", "ps">>)
      c2 == IF Missing(c1, "docker") \/ ~c1.host.docker_ok \/ <<"docker", "ps">> \in f
            THEN log_action(Failed(c1),
                   <<"Docker daemon is not accessible. Check DOCKER_HOST and Colima status.">>)
            ELSE log_info(c1, <<"Docker daemon is accessible.">>)
      c3 == Probe(c2, <<"docker", "compose", "ls">>)
  IN IF Missing(c3, "docker") \/ ~c3.host.compose_ok \/ <<"docker", "compose ls">> \in f
       THEN log_action(Failed(c3), <<"Docker Compose is not working properly.">>)
     ELSE log_info(c3, <<"Docker Compose is working.">>)

verify_docker_stack(c0, f) ==
  LET c  == Probe(log_info(c0, <<"Verifying Docker stack...">>), <<"env", "DOCKER_HOST">>)
      c1 == IF c.host.docker_host THEN log_info(c, <<"DOCKER_HOST is set to:", "docker_host">>)
            ELSE log_action(c, <<"DOCKER_HOST is not set. Please configure your shell as shown at the end of this script.">>)
      c2 == Probe(c1, <<"colima", "status">>)
  IN IF Missing(c2, "colima") \/ ~c2.host.colima_running \/ <<"colima", "status">> \in f
       THEN log_action(log_action(log_action(Failed(c2),
              <<"Colima is not running. Docker commands will fail until Colima is started.">>),
              <<"The LaunchAgent may have failed to start Colima automatically.">>),
              <<"Try running 'colima start' manually to start the Docker runtime.">>)
     ELSE docker_checks(c2, f)

\* The check bringing the session up itself when it finds it down.
verify_tailscale_connectivity_connecting(c0, f) ==
  LET c == Probe(log_info(c0, <<"Verifying Tailscale connectivity...">>), <<"tailscale", "status">>)
  IN IF Missing(c, "tailscale") \/ <<"tailscale", "status">> \in f
       THEN Return(log_info(Failed(c), <<"Failed to check Tailscale status">>), "False")
     ELSE IF Contains(OutputText(c.host.ts_status), PHRASE_ACTIVE)
       THEN Return(log_info(c, <<"Tailscale is already active.">>), "True")
     ELSE Return(SetHost(Issue(c, <<"sudo", "tailscale", "up">>),
                         [c.host EXCEPT !.ts_status = "ts_active"]), "True")

\* The check without its try/except: a failing status command leaves it as an
\* exception.
verify_tailscale_connectivity_uncaught(c0, f) ==
  LET c == Probe(log_info(c0, <<"Verifying Tailscale connectivity...">>), <<"tailscale", "status">>)
  IN IF Missing(c, "tailscale") \/ <<"tailscale", "status">> \in f
       THEN Throw(Failed(c))
     ELSE IF Contains(OutputText(c.host.ts_status), PHRASE_ACTIVE)
       THEN Return(log_info(c, <<"Tailscale is already active.">>), "True")
     ELSE Return(log_info(log_info(log_info(c,
            <<"Tailscale is not connected. The final step is to connect to your Tailnet.">>),
            <<"Please run the following command and follow the authentication link:">>),
            <<"sudo tailscale up">>), "False")

verify_tailscale_connectivity(c0, f) ==
  LET c == Probe(log_info(c0, <<"Verifying Tailscale connectivity...">>), <<"tailscale", "status">>)
  IN IF Missing(c, "tailscale") \/ <<"tailscale", "status">> \in f
       THEN Return(log_info(Failed(c), <<"Failed to check Tailscale status">>), "False")
     ELSE IF Contains(OutputText(c.host.ts_status), PHRASE_ACTIVE)
       THEN Return(log_info(c, <<"Tailscale is already active.">>), "True")
     ELSE Return(log_info(log_info(log_info(c,
            <<"Tailscale is not connected. The final step is to connect to your Tailnet.">>),
            <<"Please run the following command and follow the authentication link:">>),
            <<"sudo tailscale up">>), "False")

\* ---------------------------------------------------------------- failure inputs
\* The command sites of each function at which a failure can be injected.
Sites(fn) ==
  CASE fn = "install_homebrew" -> {<<"curl", "install.sh">>, <<"bash", "install.sh">>}
    [] fn = "install_brewfile_packages" -> {<<"brew", "bundle">>}
    [] fn = "install_tailscale" ->
         {<<"tailscale", "version">>, <<"curl", "releases/latest">>, <<"go", "env">>, <<"go", "install">>}
    [] fn = "install_tailscale_daemon" ->
         {<<"which", "tailscaled">>, <<"tailscaled", "install-system-daemon">>}
    [] fn = "configure_tailscale_dns" ->
         {<<"listallhardwareports", "">>}
         \cup {<<k, interfaces[i]>> : k \in {"getdnsservers", "getdnsservers again", "setdnsservers"},
                                      i \in 1..Len(interfaces)}
    [] fn = "setup_tmux_service" ->
         {<<"mkdir", LAUNCH_AGENTS_DIR>>, <<"which", "tmux">>, <<"write", TMUX_PLIST>>,
          <<"chown", TMUX_PLIST>>, <<"launchctl", "list">>, <<"launchctl", "load">>}
    [] fn = "setup_colima_service" ->
         {<<"brew", "install">>, <<"brew", "services list">>, <<"brew", "services start">>,
          <<"colima", "status">>}
    [] fn = "manage_filevault" -> {<<"fdesetup", "status">>, <<"fdesetup", "disable">>}
    [] fn = "disable_ssh" -> {<<"systemsetup", "-getremotelogin">>, <<"systemsetup", "-setremotelogin">>}
    [] fn = "configure_firewall" ->
         {<<"socketfilterfw", k>> : k \in {"--getglobalstate", "--setglobalstate", "--setallowsigned",
                                            "--setstealthmode"}}
         \cup {<<"which", "tailscaled">>}
         \cup {<<k, s>> : k \in {"--listapps", "--add", "--unblockapp"}, s \in AllServices}
    [] fn = "enable_screen_sharing" -> {<<"sudo launchctl", "list">>, <<"sudo launchctl", "load">>}
    [] fn = "configure_power_management" ->
         {<<"pmset", "-g">>} \cup {<<"pmset -a", PowerSettings[i]>> : i \in 1..Len(PowerSettings)}
    [] fn = "verify_docker_stack" ->
         {<<"colima", "status">>, <<"docker", "ps">>, <<"docker", "compose ls">>}
    [] fn = "verify_tailscale_connectivity" -> {<<"tailscale", "status">>}

\* The subsets of S of at most k elements.
RECURSIVE SubsetsUpTo(_, _)
SubsetsUpTo(S, k) ==
  IF k <= 0 THEN {{}}
  ELSE LET P == SubsetsUpTo(S, k - 1) IN P \cup {p \cup {s} : p \in P, s \in S}

\* ---------------------------------------------------------------- state
VARIABLES
  mode,       \* "run": the CLI runs the sequencer; "direct": a guarded action is called directly
  target,     \* the guarded action that is called directly ("none" in a run)
  host,       \* the host
  pc,         \* the function that runs next
  dry_run,    \* the run configuration
  user_only,
  trace,      \* call, return and raise events of the functions, in order
  calls,      \* one record per finished call of a guarded action or verification function
  out,        \* the notices printed, in order
  exit_code,  \* "none" while the process runs
  faults      \* failures injected so far

vars == <<mode, target, host, pc, dry_run, user_only, trace, calls, out, exit_code, faults>>

\* The five mutating phases and the verification phase, in the order of provision_system.
Phases ==
  << "install_dependencies", "setup_tailscale", "configure_services",
     "configure_security", "configure_system", "verify_system" >>

GuardedActions ==
  { "install_homebrew", "install_brewfile_packages", "install_tailscale",
    "install_tailscale_daemon", "configure_tailscale_dns", "setup_tmux_service",
    "setup_colima_service", "manage_filevault", "disable_ssh", "configure_firewall",
    "enable_screen_sharing", "configure_power_management" }

Verifications == {"verify_docker_stack", "verify_tailscale_connectivity"}

\* The phase function that calls fn.
PhaseOf(fn) ==
  CASE fn \in {"install_homebrew", "install_brewfile_packages"} -> "install_dependencies"
    [] fn \in {"install_tailscale", "install_tailscale_daemon", "configure_tailscale_dns"} -> "setup_tailscale"
    [] fn \in {"setup_tmux_service", "setup_colima_service"} -> "configure_services"
    [] fn \in {"manage_filevault", "disable_ssh", "configure_firewall"} -> "configure_security"
    [] fn \in {"enable_screen_sharing", "configure_power_management"} -> "configure_system"
    [] fn \in Verifications -> "verify_system"

\* setup_tailscale without "if not user_only" around the daemon and DNS calls.
AfterCall_ignoring_user_only(fn, uo) ==
  CASE fn = "install_homebrew" -> "install_brewfile_packages"
    [] fn = "install_brewfile_packages" -> "return"
    [] fn = "install_tailscale" -> "install_tailscale_daemon"
    [] fn = "install_tailscale_daemon" -> "configure_tailscale_dns"
    [] fn = "configure_tailscale_dns" -> "return"
    [] fn = "setup_tmux_service" -> "setup_colima_service"
    [] fn = "setup_colima_service" -> "return"
    [] fn = "manage_filevault" -> "disable_ssh"
    [] fn = "disable_ssh" -> "configure_firewall"
    [] fn = "configure_firewall" -> "return"
    [] fn = "enable_screen_sharing" -> "configure_power_management"
    [] fn = "configure_power_management" -> "return"
    [] fn = "verify_docker_stack" -> "verify_tailscale_connectivity"
    [] fn = "verify_tailscale_connectivity" -> "return"

\* What the phase function does after fn has returned: the next call it makes,
\* or "return".
AfterCall(fn, uo) ==
  CASE fn = "install_homebrew" -> "install_brewfile_packages"
    [] fn = "install_brewfile_packages" -> "return"
    [] fn = "install_tailscale" -> IF uo THEN "return" ELSE "install_tailscale_daemon"
    [] fn = "install_tailscale_daemon" -> "configure_tailscale_dns"
    [] fn = "configure_tailscale_dns" -> "return"
    [] fn = "setup_tmux_service" -> "setup_colima_service"
    [] fn = "setup_colima_service" -> "return"
    [] fn = "manage_filevault" -> "disable_ssh"
    [] fn = "disable_ssh" -> "configure_firewall"
    [] fn = "configure_firewall" -> "return"
    [] fn = "enable_screen_sharing" -> "configure_power_management"
    [] fn = "configure_power_management" -> "return"
    [] fn = "verify_docker_stack" -> "verify_tailscale_connectivity"
    [] fn = "verify_tailscale_connectivity" -> "return"

\* provision_system with the security and the system phase exchanged.
AfterPhase_system_first(ph) ==
  CASE ph = "install_dependencies" -> "setup_tailscale"
    [] ph = "setup_tailscale" -> "configure_services"
    [] ph = "configure_services" -> "configure_system"
    [] ph = "configure_system" -> "configure_security"
    [] ph = "configure_security" -> "verify_system"
    [] ph = "verify_system" -> "setup_complete"

\* What provision_system does after a phase has returned.
AfterPhase(ph) ==
  CASE ph = "install_dependencies" -> "setup_tailscale"
    [] ph = "setup_tailscale" -> "configure_services"
    [] ph = "configure_services" -> "configure_security"
    [] ph = "configure_security" -> "configure_system"
    [] ph = "configure_system" -> "verify_system"
    [] ph = "verify_system" -> "setup_complete"

Ev(e, fn) == [ev |-> e, fn |-> fn]

Init ==
  /\ mode \in {"run", "direct"}
  /\ IF mode = "run"
       THEN /\ target = "none"
            /\ host \in RunHosts
            /\ pc = "setup"
       ELSE /\ target \in GuardedActions \cup Verifications
            /\ \E b \in Baselines : host \in DirectHosts(target, b)
            /\ pc = "direct"
  /\ dry_run = FALSE
  /\ user_only = FALSE
  /\ trace = <<>>
  /\ calls = <<>>
  /\ out = <<>>
  /\ exit_code = "none"
  /\ faults = 0

\* The root test without its user_only part.
RootRequired_ignoring_user_only(uo, root) == ~root

\* cli.setup: "if not user_only and not utils.is_root()".
RootRequired(uo, root) == ~uo /\ ~root

\* provision_system: the platforms its own test lets through.
SequencerSupports(p) == p \in {"Darwin", "Linux"}

\* The phase functions with the platform test of provision_system.
PhaseSupports_like_sequencer(p) == p \in {"Darwin", "Linux"}

\* The phase functions: "if current_platform == 'Darwin'".
PhaseSupports(p) == p = "Darwin"

\* The root-only phases without their user_only test.
SkipsPhase_never(rootOnly, uo) == FALSE

\* The root-only phases consulting dry_run before user_only: a dry run goes on
\* to the actions and previews them.
SkipsPhase_unless_dry_run(rootOnly, uo) == rootOnly /\ uo /\ ~dry_run

\* configure_security and configure_system: "if user_only: ... return".
SkipsPhase(rootOnly, uo) == rootOnly /\ uo

\* The exception is caught on the way up and the run ends like a successful one.
Abort_caught(events) ==
  /\ trace' = trace \o events
  /\ pc' = "setup_complete"
  /\ UNCHANGED exit_code

\* An unhandled exception leaves provision_system and setup: the process ends
\* with a traceback.
Abort(events) ==
  /\ trace' = trace \o events \o <<Ev("raise", "provision_system"), Ev("raise", "setup")>>
  /\ pc' = "aborted"
  /\ exit_code' = "1"

\* cli.setup up to the call of provision_system.
Setup ==
  /\ mode = "run" /\ pc = "setup"
  /\ \E d \in BOOLEAN, u \in BOOLEAN :
       /\ dry_run' = d
       /\ user_only' = u
       /\ IF RootRequired(u, host.euid_root)
            THEN /\ out' = Append(out, <<"echo", "System operations require root. Run with sudo or use --user-only">>)
                 /\ exit_code' = "1"
                 /\ pc' = "exited"
                 /\ trace' = trace \o <<Ev("call", "setup"), Ev("exit", "setup")>>
            ELSE /\ pc' = "provision_system"
                 /\ trace' = Append(trace, Ev("call", "setup"))
                 /\ UNCHANGED <<out, exit_code>>
  /\ UNCHANGED <<mode, target, host, calls, faults>>

\* provision_system up to the call of the first phase.
ProvisionSystem ==
  /\ mode = "run" /\ pc = "provision_system"
  /\ IF ~SequencerSupports(host.platform)
       THEN Abort(<<Ev("call", "provision_system")>>)
       ELSE /\ pc' = Phases[1]
            /\ trace' = Append(trace, Ev("call", "provision_system"))
            /\ UNCHANGED exit_code
  /\ UNCHANGED <<mode, target, host, dry_run, user_only, calls, out, faults>>

\* A phase function up to its first call: the platform test, the opening
\* notice, and for the root-only phases the user-only test.
PhaseEntry(ph, notice, first, rootOnly, skipNotice) ==
  /\ mode = "run" /\ pc = ph
  /\ IF ~PhaseSupports(host.platform)
       THEN /\ Abort(<<Ev("call", ph), Ev("raise", ph)>>)
            /\ UNCHANGED out
       ELSE IF SkipsPhase(rootOnly, user_only)
         THEN /\ out' = Append(out, <<"[INFO]", skipNotice>>)
              /\ trace' = trace \o <<Ev("call", ph), Ev("return", ph)>>
              /\ pc' = AfterPhase(ph)
              /\ UNCHANGED exit_code
         ELSE /\ out' = Append(out, <<"[INFO]", notice>>)
              /\ trace' = Append(trace, Ev("call", ph))
              /\ pc' = first
              /\ UNCHANGED exit_code
  /\ UNCHANGED <<mode, target, host, dry_run, user_only, calls, faults>>

InstallDependencies ==
  PhaseEntry("install_dependencies", "Installing dependencies for macOS...",
             IF user_only THEN "install_brewfile_packages" ELSE "install_homebrew", FALSE, "")

SetupTailscale ==
  PhaseEntry("setup_tailscale", "Setting up Tailscale for macOS...", "install_tailscale", FALSE, "")

ConfigureServices ==
  PhaseEntry("configure_services", "Configuring services for macOS...", "setup_tmux_service", FALSE, "")

ConfigureSecurity ==
  PhaseEntry("configure_security", "Configuring security settings for macOS...", "manage_filevault",
             TRUE, "Skipping security configuration in user-only mode (requires root).")

ConfigureSystem ==
  PhaseEntry("configure_system", "Configuring system settings for macOS...", "enable_screen_sharing",
             TRUE, "Skipping system configuration in user-only mode (requires root).")

VerifySystem ==
  PhaseEntry("verify_system", "Verifying system configuration...", "verify_docker_stack", FALSE, "")

\* What a phase function prints after its last call, before it returns.
ClosingNotes(ph) ==
  IF ph = "verify_system" THEN << <<"[INFO]", "--- Setup Complete ---">> >> ELSE <<>>

\* The record of a finished call.  due: on the host the call started on, the
\* same function called with dry_run=false, no command failing, issues a
\* state-changing command.  changed: the call left the host other than it found it.
\* failed: the commands that failed in the call.
CallRecord(fn, d, c, due, f) ==
  [ fn |-> fn, dry_run |-> d, due |-> due, changed |-> c.host # host, failed |-> f, cmds |-> c.cmds,
    notes |-> c.notes, probes |-> c.probes, errs |-> c.errs, raised |-> c.raised, ret |-> c.ret ]

\* The call of fn has ended in context c: the host is as the call left it, and
\* the caller goes on (the phase function to its next call or its return, a
\* direct caller to whatever it does next), or the exception propagates.
Finish(fn, d, c, f, due) ==
  /\ host' = c.host
  /\ calls' = Append(calls, CallRecord(fn, d, c, due, f))
  /\ faults' = faults + Cardinality(f)
  /\ IF mode = "direct"
       THEN /\ out' = out \o c.notes
            /\ trace' = trace \o <<Ev("call", fn), Ev(IF c.raised THEN "raise" ELSE "return", fn)>>
            /\ pc' = IF pc = "direct" THEN "direct_again" ELSE "direct_done"
            /\ UNCHANGED exit_code
       ELSE IF c.raised
         THEN /\ out' = out \o c.notes
              /\ Abort(<<Ev("call", fn), Ev("raise", fn), Ev("raise", PhaseOf(fn))>>)
         ELSE IF AfterCall(fn, user_only) = "return"
           THEN /\ out' = out \o c.notes \o ClosingNotes(PhaseOf(fn))
                /\ trace' = trace \o <<Ev("call", fn), Ev("return", fn), Ev("return", PhaseOf(fn))>>
                /\ pc' = AfterPhase(PhaseOf(fn))
                /\ UNCHANGED exit_code
           ELSE /\ out' = out \o c.notes
                /\ trace' = trace \o <<Ev("call", fn), Ev("return", fn)>>
                /\ pc' = AfterCall(fn, user_only)
                /\ UNCHANGED exit_code
  /\ UNCHANGED <<mode, target, dry_run, user_only>>

\* The action named fn, applied to a call context.
Invoke(fn, c, d, f, built) ==
  CASE fn = "install_homebrew" -> install_homebrew(c, d, f)
    [] fn = "install_brewfile_packages" -> install_brewfile_packages(c, d, f)
    [] fn = "install_tailscale" -> install_tailscale(c, d, f, built)
    [] fn = "install_tailscale_daemon" -> install_tailscale_daemon(c, d, f)
    [] fn = "configure_tailscale_dns" -> configure_tailscale_dns(c, d, f)
    [] fn = "setup_tmux_service" -> setup_tmux_service(c, d, f)
    [] fn = "setup_colima_service" -> setup_colima_service(c, d, f)
    [] fn = "manage_filevault" -> manage_filevault(c, d, f)
    [] fn = "disable_ssh" -> disable_ssh(c, d, f)
    [] fn = "configure_firewall" -> configure_firewall(c, d, f)
    [] fn = "enable_screen_sharing" -> enable_screen_sharing(c, d, f)
    [] fn = "configure_power_management" -> configure_power_management(c, d, f)
    [] fn = "verify_docker_stack" -> verify_docker_stack(c, f)
    [] fn = "verify_tailscale_connectivity" -> verify_tailscale_connectivity(c, f)

\* The version texts the freshly built client may print (only install_tailscale
\* builds one).
Builds(fn) == IF fn = "install_tailscale" THEN InstalledOutputs ELSE {"ver_160"}

\* A phase function that leaves the dry_run keyword out of its last call, so
\* that the action runs with its default.
PassedDryRun_default_for_colima(fn, d) == IF fn = "setup_colima_service" THEN FALSE ELSE d

\* What a phase function passes to an action: "fn(dry_run=dry_run)".
PassedDryRun(fn, d) == d

\* fn is called: by its phase function with the run's dry_run, or directly (a
\* first time, then once more on the host the first call left) with either value.
\* f is the set of command sites that fail in this call; only
\* sets of which every failure is reached are taken.
Call(fn, hasDry) ==
  /\ \/ mode = "run" /\ pc = fn
     \/ mode = "direct" /\ pc \in {"direct", "direct_again"} /\ target = fn
  /\ \E d \in (IF ~hasDry THEN {FALSE} ELSE IF mode = "run" THEN {PassedDryRun(fn, dry_run)} ELSE BOOLEAN),
        f \in SubsetsUpTo(Sites(fn), MaxFailures - faults),
        built \in Builds(fn) :
       LET c == Invoke(fn, NewCall(host), d, f, built)
       IN /\ \A s \in f : Invoke(fn, NewCall(host), d, f \ {s}, built) # c
          /\ Finish(fn, d, c, f,
                    Invoke(fn, NewCall(host), FALSE, {}, built).cmds # <<>>)

InstallHomebrew == Call("install_homebrew", TRUE)

InstallBrewfilePackages == Call("install_brewfile_packages", TRUE)

InstallTailscale == Call("install_tailscale", TRUE)

InstallTailscaleDaemon == Call("install_tailscale_daemon", TRUE)

ConfigureTailscaleDns == Call("configure_tailscale_dns", TRUE)

SetupTmuxService == Call("setup_tmux_service", TRUE)

SetupColimaService == Call("setup_colima_service", TRUE)

ManageFilevault == Call("manage_filevault", TRUE)

DisableSsh == Call("disable_ssh", TRUE)

ConfigureFirewall == Call("configure_firewall", TRUE)

EnableScreenSharing == Call("enable_screen_sharing", TRUE)

ConfigurePowerManagement == Call("configure_power_management", TRUE)

VerifyDockerStack == Call("verify_docker_stack", FALSE)

VerifyTailscaleConnectivity == Call("verify_tailscale_connectivity", FALSE)

\* provision_system has returned to cli.setup: the success banner and exit code 0.
SetupComplete ==
  /\ mode = "run" /\ pc = "setup_complete"
  /\ trace' = trace \o <<Ev("return", "provision_system"), Ev("return", "setup")>>
  /\ out' = Append(out, <<"echo", "Provisioning complete!">>)
  /\ exit_code' = "0"
  /\ pc' = "exited"
  /\ UNCHANGED <<mode, target, host, dry_run, user_only, calls, faults>>

Next ==
  \/ Setup
  \/ ProvisionSystem
  \/ InstallDependencies
  \/ SetupTailscale
  \/ ConfigureServices
  \/ ConfigureSecurity
  \/ ConfigureSystem
  \/ VerifySystem
  \/ InstallHomebrew
  \/ InstallBrewfilePackages
  \/ InstallTailscale
  \/ InstallTailscaleDaemon
  \/ ConfigureTailscaleDns
  \/ SetupTmuxService
  \/ SetupColimaService
  \/ ManageFilevault
  \/ DisableSsh
  \/ ConfigureFirewall
  \/ EnableScreenSharing
  \/ ConfigurePowerManagement
  \/ VerifyDockerStack
  \/ VerifyTailscaleConnectivity
  \/ SetupComplete

Spec == Init /\ [][Next]_vars

\* ---------------------------------------------------------------- properties
InRun == mode = "run"

Called(fn) == \E i \in 1..Len(trace) : trace[i] = Ev("call", fn)

Returned(fn) == \E i \in 1..Len(trace) : trace[i] = Ev("return", fn)

Raised(fn) == \E i \in 1..Len(trace) : trace[i] = Ev("raise", fn)

Invoked(fn) == \E i \in 1..Len(calls) : calls[i].fn = fn

Printed(note) == \E i \in 1..Len(out) : out[i] = note

\* The run has gone through to the success banner.
Completed == InRun /\ pc = "exited" /\ exit_code = "0"

\* C1 (dry-run purity): a call of a guarded action with dry_run=true issues no
\* state-changing command and leaves the host as it found it, whatever the
\* host; and no step of a run with dry_run=true changes the host.
C1_DryRunPurity ==
  /\ [](\A i \in 1..Len(calls) :
          calls[i].dry_run => calls[i].cmds = <<>> /\ ~calls[i].changed)
  /\ [][(InRun /\ dry_run') => host' = host]_vars

\* A dry run has gone through all phases on a host whose firewall (among
\* others) had a change due.
C1_Witness ==
  /\ Completed /\ dry_run /\ ~user_only
  /\ \E i \in 1..Len(calls) :
       calls[i].fn = "configure_firewall" /\ calls[i].dry_run /\ calls[i].due

\* C2 (idempotence): when a guarded action is called twice in succession with
\* dry_run=false and every command of the first call succeeded, the second call
\* issues no state-changing command.
C2_Idempotence ==
  \A i \in 1..(Len(calls) - 1) :
    ( /\ mode = "direct"
      /\ calls[i].fn \in GuardedActions /\ calls[i + 1].fn = calls[i].fn
      /\ ~calls[i].dry_run /\ ~calls[i + 1].dry_run
      /\ calls[i].errs = 0 /\ ~calls[i].raised )
    => calls[i + 1].cmds = <<>>

\* The order the claims state: each phase with its actions, in order.
DeclaredOrder ==
  << <<"install_dependencies", "install_homebrew">>,
     <<"install_dependencies", "install_brewfile_packages">>,
     <<"setup_tailscale", "install_tailscale">>,
     <<"setup_tailscale", "install_tailscale_daemon">>,
     <<"setup_tailscale", "configure_tailscale_dns">>,
     <<"configure_services", "setup_tmux_service">>,
     <<"configure_services", "setup_colima_service">>,
     <<"configure_security", "manage_filevault">>,
     <<"configure_security", "disable_ssh">>,
     <<"configure_security", "configure_firewall">>,
     <<"configure_system", "enable_screen_sharing">>,
     <<"configure_system", "configure_power_management">>,
     <<"verify_system", "verify_docker_stack">>,
     <<"verify_system", "verify_tailscale_connectivity">> >>

DeclaredPhases ==
  << "install_dependencies", "setup_tailscale", "configure_services",
     "configure_security", "configure_system", "verify_system" >>

\* The place of a function in the declared order.
PlaceOf(fn) == CHOOSE k \in 1..Len(DeclaredOrder) : DeclaredOrder[k][2] = fn

DeclaredPhaseOf(fn) == DeclaredOrder[PlaceOf(fn)][1]

IsPhase(fn) == \E k \in 1..Len(DeclaredPhases) : DeclaredPhases[k] = fn

PhaseCallEvents == SelectSeq(trace, LAMBDA e : e.ev = "call" /\ IsPhase(e.fn))

\* C3 (fixed order): in a run the phases are called in the declared order, each
\* at most once and only after the previous one has returned; the actions are
\* called in the declared order, each while its own phase is running.
C3_FixedOrder ==
  InRun =>
    LET phaseCalls == PhaseCallEvents
    IN /\ Len(phaseCalls) <= Len(DeclaredPhases)
       /\ \A k \in 1..Len(phaseCalls) : phaseCalls[k].fn = DeclaredPhases[k]
       /\ \A i \in 1..Len(trace) :
            (trace[i].ev = "call" /\ IsPhase(trace[i].fn) /\ trace[i].fn # DeclaredPhases[1])
              => \E j \in 1..(i - 1), k \in 2..Len(DeclaredPhases) :
                   /\ trace[i].fn = DeclaredPhases[k]
                   /\ trace[j] = Ev("return", DeclaredPhases[k - 1])
       /\ \A i \in 1..(Len(calls) - 1) : PlaceOf(calls[i].fn) < PlaceOf(calls[i + 1].fn)
       /\ \A i \in 1..Len(trace) :
            (trace[i].ev = "call" /\ ~IsPhase(trace[i].fn) /\ trace[i].fn \notin {"setup", "provision_system"})
              => LET phase == DeclaredPhaseOf(trace[i].fn)
                 IN /\ \E j \in 1..(i - 1) : trace[j] = Ev("call", phase)
                    /\ \A m \in 1..(i - 1) : trace[m].fn = phase => trace[m].ev = "call"

\* A root run has called all fourteen functions and ended.
C3_Witness == Completed /\ ~user_only /\ Len(calls) = Len(DeclaredOrder)

RootPhaseActions ==
  { "manage_filevault", "disable_ssh", "configure_firewall",
    "enable_screen_sharing", "configure_power_management" }

SecuritySkipNotice ==
  <<"[INFO]", "Skipping security configuration in user-only mode (requires root).">>

SystemSkipNotice ==
  <<"[INFO]", "Skipping system configuration in user-only mode (requires root).">>

RootGuidance == <<"echo", "System operations require root. Run with sudo or use --user-only">>

SuccessBanner == <<"echo", "Provisioning complete!">>

TimesPrinted(note) == Cardinality({i \in 1..Len(out) : out[i] = note})

\* C4 (user-only gating of the root phases): in a run with user_only=true none
\* of the five actions of the security and system phases is called, whatever
\* dry_run is, and each of the two phases, once called, has printed exactly one
\* skip notice and returned.
C4_UserOnlyGating ==
  (InRun /\ user_only) =>
    /\ \A fn \in RootPhaseActions : ~Called(fn) /\ ~Invoked(fn)
    /\ IF Called("configure_security")
         THEN Returned("configure_security") /\ TimesPrinted(SecuritySkipNotice) = 1
         ELSE TimesPrinted(SecuritySkipNotice) = 0
    /\ IF Called("configure_system")
         THEN Returned("configure_system") /\ TimesPrinted(SystemSkipNotice) = 1
         ELSE TimesPrinted(SystemSkipNotice) = 0

\* A user-only run has ended on a host whose FileVault and sleep settings had
\* a change due.
C4_Witness ==
  /\ Completed /\ user_only
  /\ host.filevault = "fv_on" /\ host.pm["sleep"] = "10"

\* C5 (abort on first failure): once an exception has left a phase function (or
\* provision_system), nothing is called any more, the success banner is not
\* printed, the exit code is not 0, and no further step is taken (so nothing
\* that was applied is undone).
C5_AbortOnFirstFailure ==
  /\ [](InRun =>
          \A i \in 1..Len(trace) :
            (trace[i].ev = "raise" /\ (IsPhase(trace[i].fn) \/ trace[i].fn = "provision_system"))
              => /\ \A j \in (i + 1)..Len(trace) : trace[j].ev = "raise"
                 /\ ~Printed(SuccessBanner)
                 /\ exit_code = "1"
                 /\ pc = "aborted")
  /\ [][pc # "aborted"]_vars

\* The mesh-VPN phase has raised after the dependency phase had changed the host.
C5_Witness ==
  /\ InRun /\ pc = "aborted" /\ Raised("setup_tailscale")
  /\ \E i \in 1..Len(calls) : calls[i].fn = "install_brewfile_packages" /\ calls[i].changed

\* C6 (unsupported platform): on a platform other than Darwin a run calls no
\* guarded action and prints no notice of a phase; it gets no further than the
\* platform test of provision_system or, on Linux, that of the first phase,
\* and ends by the exception.
C6_UnsupportedPlatform ==
  (InRun /\ host.platform # "Darwin") =>
    /\ calls = <<>>
    /\ \A k \in 1..Len(DeclaredOrder) : ~Called(DeclaredOrder[k][2])
    /\ \A i \in 1..Len(out) : out[i] = RootGuidance
    /\ pc \in {"setup", "provision_system", "install_dependencies", "aborted", "exited"}
    /\ pc = "install_dependencies" => host.platform = "Linux"
    /\ pc = "exited" => exit_code = "1" /\ ~Called("provision_system")
    /\ pc = "aborted" => Raised("provision_system") /\ exit_code = "1"

\* On Linux the first phase function has raised.
C6_Witness ==
  InRun /\ host.platform = "Linux" /\ pc = "aborted" /\ Raised("install_dependencies")

\* C7 (root precondition): after cli.setup has looked at its flags: without
\* --user-only and not root, the process has exited with code 1 and the
\* guidance, and nothing was called; with --user-only provision_system is
\* called, root or not; and when provision_system has returned the exit code is 0.
C7_RootPrecondition ==
  (InRun /\ pc # "setup") =>
    /\ (~user_only /\ ~host.euid_root)
         => /\ pc = "exited" /\ exit_code = "1" /\ Printed(RootGuidance)
            /\ ~Called("provision_system") /\ calls = <<>>
            /\ \A k \in 1..Len(DeclaredPhases) : ~Called(DeclaredPhases[k])
    /\ user_only
         => /\ pc = "provision_system" \/ Called("provision_system")
            /\ ~Printed(RootGuidance)
    /\ Returned("provision_system") => pc = "exited" /\ exit_code = "0"

\* Not root and no --user-only: the process has exited with code 1.
C7_Witness ==
  InRun /\ pc = "exited" /\ exit_code = "1" /\ ~user_only /\ ~host.euid_root

\* C8 (action-level user-only filtering): in a run with user_only=true
\* install_homebrew, install_tailscale_daemon and configure_tailscale_dns are
\* never called, while the dependency phase, once returned, has called
\* install_brewfile_packages and the mesh-VPN phase install_tailscale; the
\* service phase, once returned, has called both services' actions for either
\* value of user_only.
C8_ActionLevelFiltering ==
  InRun =>
    /\ user_only =>
         \A fn \in {"install_homebrew", "install_tailscale_daemon", "configure_tailscale_dns"} :
           ~Called(fn) /\ ~Invoked(fn)
    /\ (user_only /\ Returned("install_dependencies")) => Invoked("install_brewfile_packages")
    /\ (user_only /\ Returned("setup_tailscale")) => Invoked("install_tailscale")
    /\ Returned("configure_services")
         => Invoked("setup_tmux_service") /\ Invoked("setup_colima_service")

\* A user-only run that installed the packages and the mesh-VPN client has ended.
C8_Witness ==
  /\ Completed /\ user_only /\ ~dry_run
  /\ \E i \in 1..Len(calls) : calls[i].fn = "install_brewfile_packages" /\ calls[i].cmds # <<>>
  /\ \E i \in 1..Len(calls) : calls[i].fn = "install_tailscale" /\ calls[i].cmds # <<>>

\* The notices of the program that say a step is skipped because it requires root.
RequiresRootNotices == {SecuritySkipNotice, SystemSkipNotice}

\* C9 (every skip is observable): a completed run with user_only=true has
\* printed a distinct requires-root skip notice for each of the five things it
\* skipped (Homebrew, the daemon, DNS, the security phase, the system phase).
C9_EverySkipObservable ==
  (Completed /\ user_only) =>
    Cardinality({out[i] : i \in {j \in 1..Len(out) : out[j] \in RequiresRootNotices}}) = 5

\* C10 (probe before preview): a call of a guarded action with dry_run=true
\* inspects the host, and prints a "[DRY RUN] Would ..." notice only on a host
\* on which the same call with dry_run=false would issue a state-changing command.
C10_ProbeBeforePreview ==
  \A i \in 1..Len(calls) :
    (calls[i].fn \in GuardedActions /\ calls[i].dry_run) =>
      /\ calls[i].probes # <<>>
      /\ (\E k \in 1..Len(calls[i].notes) : IsPreview(calls[i].notes[k])) => calls[i].due

\* C11 (preview completeness in a root dry run): in a run by root with
\* dry_run=true and user_only=false on the supported platform, in which no
\* external command fails, every guarded action whose call with dry_run=false
\* would issue a state-changing command prints a "[DRY RUN]" notice, and the
\* run, once ended, has gone through every phase and exited with code 0.
C11_PreviewCompleteness ==
  (InRun /\ dry_run /\ ~user_only /\ host.euid_root /\ host.platform = "Darwin" /\ faults = 0) =>
    /\ \A i \in 1..Len(calls) :
         (calls[i].fn \in GuardedActions /\ calls[i].due)
           => \E k \in 1..Len(calls[i].notes) : IsPreview(calls[i].notes[k])
    /\ pc \in {"exited", "aborted"} =>
         /\ exit_code = "0"
         /\ \A k \in 1..Len(DeclaredPhases) : Returned(DeclaredPhases[k])

\* The command sets the resolver list of the interface.
SetsDns(cmd, interface) ==
  Len(cmd) >= 4 /\ cmd[3] = "-setdnsservers" /\ cmd[4] = interface

\* The step is a call of fn (its record is the last of calls').
IsCallOf(fn) ==
  /\ Len(calls') = Len(calls) + 1
  /\ calls'[Len(calls')].fn = fn

\* C12 (DNS idempotence): a call of configure_tailscale_dns, with either value
\* of dry_run, issues no -setdnsservers for an interface whose resolver list
\* holds the sentinel anywhere before the call; and a call that follows a
\* successful call with dry_run=false issues no command at all.
C12_DnsIdempotence ==
  /\ [][IsCallOf("configure_tailscale_dns") =>
          \A i \in 1..Len(interfaces) :
            (\E n \in 1..Len(host.dns[interfaces[i]]) : host.dns[interfaces[i]][n] = TAILSCALE_DNS)
              => LET cmds == calls'[Len(calls')].cmds
                 IN /\ \A k \in 1..Len(cmds) : ~SetsDns(cmds[k], interfaces[i])
                    /\ host'.dns[interfaces[i]] = host.dns[interfaces[i]]]_vars
  /\ [](\A i \in 1..(Len(calls) - 1) :
          ( /\ mode = "direct" /\ calls[i].fn = "configure_tailscale_dns"
            /\ ~calls[i].dry_run /\ calls[i].errs = 0 /\ ~calls[i].raised )
          => calls[i + 1].cmds = <<>>)

\* configure_tailscale_dns was called twice on a host whose Wi-Fi list holds the
\* sentinel in second place: the first call set the resolvers of Ethernet only.
C12_Witness ==
  /\ mode = "direct" /\ target = "configure_tailscale_dns" /\ Len(calls) = 2
  /\ ~calls[1].dry_run /\ calls[1].errs = 0 /\ calls[1].cmds # <<>>
  /\ Len(host.dns["Wi-Fi"]) = 2 /\ host.dns["Wi-Fi"][2] = TAILSCALE_DNS
  /\ "Wi-Fi" \in host.ports

\* C13 (DNS prepend never replaces): every -setdnsservers a call of
\* configure_tailscale_dns issues for an interface carries the sentinel followed
\* by the entries the interface's resolver list held before the call, in
\* their order, whatever fails in the call.
C13_DnsPrependNeverReplaces ==
  [][IsCallOf("configure_tailscale_dns") =>
       LET cmds == calls'[Len(calls')].cmds
       IN \A k \in 1..Len(cmds), i \in 1..Len(interfaces) :
            SetsDns(cmds[k], interfaces[i])
              => SubSeq(cmds[k], 5, Len(cmds[k])) = <<TAILSCALE_DNS>> \o host.dns[interfaces[i]]]_vars

V_1_58_2 == <<"1", ".", "5", "8", ".", "2">>

V_1_60_0 == <<"1", ".", "6", "0", ".", "0">>

UpToDateNotice == <<"[INFO]", "Tailscale is already installed and up to date.">>

\* The failures the version comparison can meet.
VersionFailures == SUBSET {<<"tailscale", "version">>, <<"curl", "releases/latest">>}

\* The comparison as stated: False without an installed version, else True
\* without a latest version, else equality.
UpToDateAsStated(installed, latest) ==
  IF installed = NoVersion THEN FALSE
  ELSE IF latest = NoVersion THEN TRUE
  ELSE installed = latest

\* The k-th call printed the notice.
Noted(k, notice) == \E n \in 1..Len(calls[k].notes) : calls[k].notes[n] = notice

\* C14 (version comparison): on every host and whatever fails,
\* is_tailscale_up_to_date is False without an installed version, else True
\* without a latest version, else the equality of the two; the version text
\* with "/v1.58.2-t1234567890a" parses to 1.58.2 and the tag v1.60.0 to 1.60.0;
\* and a first call of install_tailscale on a host with tailscaled reports
\* "up to date" exactly when the comparison as stated says so.
C14_VersionComparison ==
  /\ \A f \in VersionFailures :
       /\ is_tailscale_up_to_date(host, f)
            = UpToDateAsStated(get_installed_tailscale_version(host, f),
                               get_latest_tailscale_version(host, f))
       /\ (<<"tailscale", "version">> \in f \/ "tailscale" \notin host.bins)
            => ~is_tailscale_up_to_date(host, f)
  /\ ("tailscale" \in host.bins /\ host.ts_version = "ver_158")
       => get_installed_tailscale_version(host, {}) = V_1_58_2
  /\ host.ts_latest = "rel_160" => get_latest_tailscale_version(host, {}) = V_1_60_0
  /\ ( /\ mode = "direct" /\ target = "install_tailscale" /\ Len(calls) = 1
       /\ calls[1].dry_run /\ faults = 0 /\ "tailscaled" \in host.bins )
       => ( Noted(1, UpToDateNotice)
              <=> UpToDateAsStated(
                    IF "tailscale" \in host.bins THEN ParseInstalledVersion(OutputText(host.ts_version))
                    ELSE NoVersion,
                    IF host.ts_latest = "rel_160" THEN V_1_60_0
                    ELSE IF host.ts_latest \in {"rel_158"} THEN V_1_58_2
                    ELSE IF host.ts_latest = "rel_plain" THEN V_1_60_0
                    ELSE NoVersion) )

\* install_tailscale was called with dry_run=true on a host with version
\* 1.58.2 installed while 1.60.0 is the latest: it previewed the update.
C14_Witness ==
  /\ mode = "direct" /\ target = "install_tailscale" /\ Len(calls) = 1
  /\ calls[1].dry_run /\ faults = 0
  /\ {"tailscale", "tailscaled"} \subseteq host.bins
  /\ host.ts_version = "ver_158" /\ host.ts_latest = "rel_160"
  /\ Noted(1, <<"->", "[DRY RUN]", "Would update Tailscale from source">>)

\* C15 (fail-open at the action): when install_tailscale is called, with either
\* value of dry_run, on a host with tailscaled and a version command whose
\* output parses, and the latest version is not determined (the lookup fails,
\* its response is not valid JSON, or it carries no tag), the call prints the
\* up-to-date notice and nothing else, issues no command, does not raise and
\* leaves the host as it was.
C15_FailOpenAtTheAction ==
  [][IsCallOf("install_tailscale") =>
       LET rec == calls'[Len(calls')]
       IN ( /\ {"tailscale", "tailscaled"} \subseteq host.bins
            /\ <<"tailscale", "version">> \notin rec.failed
            /\ ParseInstalledVersion(OutputText(host.ts_version)) # NoVersion
            /\ \/ <<"curl", "releases/latest">> \in rec.failed
               \/ host.ts_latest \in {"rel_badjson", "rel_notag"} )
          => /\ rec.notes = <<UpToDateNotice>>
             /\ rec.cmds = <<>>
             /\ ~rec.raised
             /\ host' = host]_vars

\* install_tailscale was called with dry_run=false on a host with 1.58.2
\* installed and 1.60.0 published, and the release lookup failed: it reported
\* "up to date" and issued nothing.
C15_Witness ==
  /\ mode = "direct" /\ target = "install_tailscale" /\ Len(calls) = 1
  /\ ~calls[1].dry_run /\ calls[1].failed = {<<"curl", "releases/latest">>}
  /\ {"tailscale", "tailscaled"} \subseteq host.bins
  /\ host.ts_version = "ver_158" /\ host.ts_latest = "rel_160"
  /\ Noted(1, UpToDateNotice) /\ calls[1].cmds = <<>>

\* C16 (an unparseable installed version is "not installed"): when
\* install_tailscale is called on a host whose installed version cannot be
\* determined (the version command is missing or fails, or its output has no
\* /vX.Y.Z token), with tailscaled on the search path or not, it prints the
\* "Would install" preview under dry_run, and otherwise the not-installed
\* notice followed by the build from source.
C16_UnparseableIsNotInstalled ==
  [][IsCallOf("install_tailscale") =>
       LET rec == calls'[Len(calls')]
       IN ( \/ "tailscale" \notin host.bins
            \/ <<"tailscale", "version">> \in rec.failed
            \/ ParseInstalledVersion(OutputText(host.ts_version)) = NoVersion )
          => IF rec.dry_run
               THEN rec.notes = << <<"->", "[DRY RUN]", "Would install Tailscale from source">> >>
                    /\ rec.cmds = <<>>
               ELSE /\ rec.notes = << <<"->", "tailscaled not found. Installing Tailscale from source...">> >>
                    /\ ("go" \in host.bins /\ rec.failed \subseteq {<<"tailscale", "version">>})
                         => rec.cmds = << <<"go", "install", "tailscale@main", "tailscaled@main">> >>]_vars

VerificationPlaces ==
  {"verify_system", "verify_docker_stack", "verify_tailscale_connectivity"}

\* C17 (verification is read-only and always runs): once the system phase has
\* returned, for any dry_run and user_only, the run is in or past verify_system
\* and has not aborted; a call of verify_docker_stack or
\* verify_tailscale_connectivity issues no state-changing command and leaves
\* the host as it found it; no step of the verification phase changes the host.
C17_VerificationReadOnly ==
  /\ []((InRun /\ Returned("configure_system")) =>
          /\ pc \in VerificationPlaces \cup {"setup_complete", "exited"}
          /\ pc # "verify_system" => Called("verify_system")
          /\ pc \in {"setup_complete", "exited"} =>
               /\ Returned("verify_system")
               /\ Invoked("verify_docker_stack") /\ Invoked("verify_tailscale_connectivity"))
  /\ [](\A i \in 1..Len(calls) :
          calls[i].fn \in Verifications => calls[i].cmds = <<>> /\ ~calls[i].changed)
  /\ [][(pc \in VerificationPlaces \/ (mode = "direct" /\ target \in Verifications))
          => host' = host]_vars

\* A user-only dry run has ended after verification found the mesh-VPN session
\* down and the container runtime not running.
C17_Witness ==
  /\ Completed /\ user_only /\ dry_run
  /\ \E i \in 1..Len(calls) :
       calls[i].fn = "verify_tailscale_connectivity" /\ calls[i].ret = "False"
  /\ ~host.colima_running

\* C18 (verification findings never fail the run): whatever the verification
\* probes find and whichever of them fail, a call of verify_docker_stack or
\* verify_tailscale_connectivity does not raise; once verify_system has been
\* called the run does not abort, and when it has ended verify_system has
\* returned, the success banner is printed and the exit code is 0.
C18_VerificationNeverFails ==
  /\ \A i \in 1..Len(calls) : calls[i].fn \in Verifications => ~calls[i].raised
  /\ (InRun /\ Called("verify_system")) =>
       /\ host.platform = "Darwin"
       /\ ~Raised("verify_system")
       /\ pc \in {"verify_docker_stack", "verify_tailscale_connectivity", "setup_complete", "exited"}
       /\ pc = "exited" =>
            /\ Returned("verify_system")
            /\ Printed(SuccessBanner)
            /\ exit_code = "0"

\* A run has ended with the banner although DOCKER_HOST is unset, Colima is not
\* running and the mesh-VPN status command failed.
C18_Witness ==
  /\ Completed /\ ~host.docker_host /\ ~host.colima_running
  /\ \E i \in 1..Len(calls) :
       /\ calls[i].fn = "verify_tailscale_connectivity"
       /\ calls[i].failed = {<<"tailscale", "status">>}
  /\ Printed(SuccessBanner)

\* What a user-only run leaves as it found it on a host that started fresh: no
\* package manager, and the root-owned settings of the fresh host.
StartedFresh ==
  /\ "brew" \notin host.bins
  /\ ~host.daemon_plist
  /\ host.filevault = FreshHost.filevault /\ host.ssh = FreshHost.ssh
  /\ host.firewall = FreshHost.firewall /\ host.pm = FreshHost.pm

\* C19 (user-only run on a fresh host): a run with --user-only and without
\* --dry-run, by a non-root user on a fresh host, in which no command fails for
\* a reason of its own, does not abort: no phase raises, and when the run has
\* ended every phase has returned, the packages and the client were installed,
\* both skip notices were printed and the exit code is 0.
C19_FreshUserOnlyRun ==
  ( /\ InRun /\ user_only /\ ~dry_run /\ ~host.euid_root
    /\ host.platform = "Darwin" /\ faults = 0 /\ StartedFresh ) =>
    /\ pc # "aborted"
    /\ \A k \in 1..Len(DeclaredPhases) : ~Raised(DeclaredPhases[k])
    /\ pc = "exited" =>
         /\ exit_code = "0"
         /\ \A k \in 1..Len(DeclaredPhases) : Returned(DeclaredPhases[k])
         /\ \E i \in 1..Len(calls) :
              calls[i].fn = "install_brewfile_packages" /\ calls[i].cmds # <<>> /\ ~calls[i].raised
         /\ \E i \in 1..Len(calls) :
              calls[i].fn = "install_tailscale" /\ calls[i].cmds # <<>> /\ ~calls[i].raised
         /\ Printed(SecuritySkipNotice) /\ Printed(SystemSkipNotice)

\* The actions a phase function calls only under "if not user_only", and the
\* actions of the two phases that return at once under "if user_only".
FilteredByUserOnly ==
  {"install_homebrew", "install_tailscale_daemon", "configure_tailscale_dns"} \cup RootPhaseActions

\* The functions a run is to call, in order, as a function of user_only alone.
ExpectedCalls(uo) ==
  SelectSeq(DeclaredOrder, LAMBDA e : ~(uo /\ e[2] \in FilteredByUserOnly))

C21_ConfigurationThreaded ==
  /\ [][(InRun /\ pc # "setup") => (dry_run' = dry_run /\ user_only' = user_only)]_vars
  /\ [](InRun =>
          /\ \A i \in 1..Len(calls) :
               calls[i].fn \in GuardedActions => calls[i].dry_run = dry_run
          /\ Called("configure_security") /\ host.platform = "Darwin"
               => (Printed(SecuritySkipNotice) <=> user_only)
          /\ Called("configure_system") /\ host.platform = "Darwin"
               => (Printed(SystemSkipNotice) <=> user_only))

\* A root dry run has gone through all twelve guarded actions, each with
\* dry_run=true.
C21_Witness ==
  /\ Completed /\ dry_run /\ ~user_only
  /\ \A fn \in GuardedActions : \E i \in 1..Len(calls) : calls[i].fn = fn /\ calls[i].dry_run

\* The notices with which the root-phase actions report a failure they caught.
FailureNotices ==
  { <<"->", "Failed to manage FileVault">>, <<"->", "Failed to disable SSH">>,
    <<"->", "Failed to configure firewall">>, <<"->", "Failed to enable Screen Sharing">>,
    <<"->", "Failed to configure power management">>,
    <<"->", "WARNING: tailscaled path not found, skipping firewall exception">> }

\* For every failed command of the call a failure notice of its own.
FailuresLogged(rec) ==
  Cardinality({k \in 1..Len(rec.notes) : rec.notes[k] \in FailureNotices}) >= rec.errs

\* The failures of a root-phase action never leave it, and the run goes on:
\* once a root-phase action has been called the run does not abort, and when it
\* has ended all five root-phase actions and both verifications were called.
RootFailuresContained ==
  /\ \A i \in 1..Len(calls) : calls[i].fn \in RootPhaseActions => ~calls[i].raised
  /\ (InRun /\ \E i \in 1..Len(calls) : calls[i].fn \in RootPhaseActions) =>
       /\ pc # "aborted"
       /\ pc = "exited" =>
            /\ Completed
            /\ \A fn \in RootPhaseActions \cup Verifications : Invoked(fn)

\* C22 (locally recovered failures in the root phases): a command that fails
\* inside manage_filevault, disable_ssh, configure_firewall,
\* enable_screen_sharing or configure_power_management is caught in the action
\* and reported with a notice; the action does not raise, and the rest of the
\* phase and the later phases run.
C22_RootFailuresRecovered ==
  /\ RootFailuresContained
  /\ \A i \in 1..Len(calls) :
       (calls[i].fn \in RootPhaseActions /\ calls[i].errs > 0) => FailuresLogged(calls[i])

LooksUpTailscaled(rec) == \E k \in 1..Len(rec.probes) : rec.probes[k] = <<"which", "tailscaled">>

PhasesAfterTailscale == {"configure_services", "configure_security", "configure_system", "verify_system"}

\* C23 (missing daemon binary is fatal only when a mutation is due): a call of
\* install_tailscale_daemon on a host with the registration file, or with
\* dry_run=true, does not raise, does not look up tailscaled and issues no
\* command; a call with dry_run=false on a host without the file where
\* tailscaled cannot be located raises without having issued a command and
\* leaves the host as it was, and in a run the run aborts there: the DNS
\* action and the later phases are never called.
C23_MissingDaemonBinary ==
  /\ [][IsCallOf("install_tailscale_daemon") =>
          LET rec == calls'[Len(calls')]
          IN IF host.daemon_plist \/ rec.dry_run
               THEN ~rec.raised /\ ~LooksUpTailscaled(rec) /\ rec.cmds = <<>> /\ host' = host
             ELSE IF "tailscaled" \notin host.bins \/ <<"which", "tailscaled">> \in rec.failed
               THEN /\ rec.raised /\ rec.cmds = <<>> /\ host' = host
                    /\ InRun => pc' = "aborted"
             ELSE LooksUpTailscaled(rec) /\ Len(rec.cmds) = 1]_vars
  /\ []((InRun /\ \E i \in 1..Len(calls) :
                     calls[i].fn = "install_tailscale_daemon" /\ calls[i].raised) =>
          /\ pc = "aborted" /\ exit_code # "0"
          /\ ~Invoked("configure_tailscale_dns")
          /\ \A ph \in PhasesAfterTailscale : ~Called(ph))

\* A run has aborted in install_tailscale_daemon, which looked for tailscaled,
\* did not find it and issued nothing.
C23_Witness ==
  /\ InRun /\ pc = "aborted" /\ Len(calls) >= 1
  /\ LET rec == calls[Len(calls)]
     IN /\ rec.fn = "install_tailscale_daemon" /\ rec.raised /\ ~rec.dry_run
        /\ rec.cmds = <<>> /\ LooksUpTailscaled(rec)

\* The commands that switch the firewall itself (not its per-application exceptions).
FirewallToggles == {"--setglobalstate", "--setallowsigned", "--setstealthmode"}

\* C24 (unrecognised toggle status means no change): a call of
\* manage_filevault or disable_ssh on a host whose status text for FileVault
\* or Remote Login matches none of the known phrases does not raise, issues no
\* command and leaves the host as it was; a call of configure_firewall on a host
\* whose firewall status matches none of the known phrases does not raise,
\* issues none of the commands that switch the firewall and leaves the
\* firewall's state, signing and stealth settings as they were.
C24_UnrecognisedStatus ==
  /\ [][(IsCallOf("manage_filevault") /\ host.filevault = "fv_other") =>
          LET rec == calls'[Len(calls')]
          IN ~rec.raised /\ rec.cmds = <<>> /\ host' = host]_vars
  /\ [][(IsCallOf("disable_ssh") /\ host.ssh = "ssh_other") =>
          LET rec == calls'[Len(calls')]
          IN ~rec.raised /\ rec.cmds = <<>> /\ host' = host]_vars
  /\ [][(IsCallOf("configure_firewall") /\ host.firewall = "fw_other") =>
          LET rec == calls'[Len(calls')]
          IN /\ ~rec.raised
             /\ \A k \in 1..Len(rec.cmds) : rec.cmds[k][2] \notin FirewallToggles
             /\ host'.firewall = host.firewall /\ host'.fw_signed = host.fw_signed
             /\ host'.fw_stealth = host.fw_stealth]_vars

\* The three actions were each called with dry_run=false on an unrecognised
\* status whose command did not fail; one state per action, the witness is the
\* Remote Login one.
C24_Witness ==
  /\ Len(calls) = 1 /\ calls[1].fn = "disable_ssh" /\ ~calls[1].dry_run
  /\ host.ssh = "ssh_other" /\ calls[1].failed = {}

\* A command that registers or loads a service: the daemon installer, the
\* writing of a service plist, or a launchctl load.
Registers(cmd) ==
  \E k \in 1..Len(cmd) : cmd[k] \in {"install-system-daemon", "write", "load"}

NoRegistration(rec) == \A k \in 1..Len(rec.cmds) : ~Registers(rec.cmds[k])

\* C25 (registration by either signal): a call of install_tailscale_daemon,
\* setup_tmux_service or enable_screen_sharing on a host where the service's
\* registration file exists or its identifier is in the service manager's
\* listing issues no registration or load command for it. (The file of Screen
\* Sharing is a system file the host record does not hold; for it the listing
\* is the signal stated.)
C25_RegisteredByEitherSignal ==
  /\ [][(IsCallOf("install_tailscale_daemon")
           /\ (host.daemon_plist \/ "com.tailscale.tailscaled" \in host.launchctl))
          => NoRegistration(calls'[Len(calls')])]_vars
  /\ [][(IsCallOf("setup_tmux_service")
           /\ (host.tmux_plist \/ "com.tmux.main" \in host.launchctl))
          => NoRegistration(calls'[Len(calls')])]_vars
  /\ [][(IsCallOf("enable_screen_sharing") /\ "com.apple.screensharing" \in host.launchctl)
          => NoRegistration(calls'[Len(calls')])]_vars

ConnectInstruction == <<"[INFO]", "sudo tailscale up">>

Instructs(rec) == \E k \in 1..Len(rec.notes) : rec.notes[k] = ConnectInstruction

\* C26 (mesh-VPN session report): a call of verify_tailscale_connectivity
\* returns True and prints no connect instruction when the status command
\* succeeds and shows an active session; in every other case (the status shows
\* no active session, or the command fails or is missing) it returns False and
\* prints the instruction to run 'sudo tailscale up'.
C26_SessionReport ==
  [][IsCallOf("verify_tailscale_connectivity") =>
       LET rec == calls'[Len(calls')]
           succeeded == "tailscale" \in host.bins /\ rec.failed = {}
       IN IF succeeded /\ host.ts_status = "ts_active"
            THEN rec.ret = "True" /\ ~Instructs(rec)
            ELSE rec.ret = "False" /\ Instructs(rec)]_vars

\* The call read the resolvers of the interface.
ReadsDns(rec, interface) ==
  \E k \in 1..Len(rec.probes) : rec.probes[k] = <<"networksetup", "-getdnsservers", interface>>

\* A command of the call names the interface.
ChangesDns(rec, interface) ==
  \E k \in 1..Len(rec.cmds) : SetsDns(rec.cmds[k], interface)

\* A read or a set of the resolvers of the interface failed in the call.
DnsFailureOn(rec, interface) == \E x \in rec.failed : x[2] = interface

\* C27 (per-interface DNS recovery): in a call of configure_tailscale_dns in
\* which the hardware ports were listed, an interface that is not listed is
\* neither read nor set; a listed interface is read, whatever failed on the
\* other one, and if nothing failed on it itself it is handled as if nothing
\* had failed at all (nothing set when the sentinel is present or dry_run is
\* true, set otherwise); the action does not raise, and in a run the run goes on.
C27_PerInterfaceRecovery ==
  [][(IsCallOf("configure_tailscale_dns")
        /\ <<"listallhardwareports", "">> \notin calls'[Len(calls')].failed) =>
       LET rec == calls'[Len(calls')]
       IN /\ ~rec.raised
          /\ InRun => pc' # "aborted"
          /\ \A i \in 1..Len(interfaces) :
               LET interface == interfaces[i]
                   present == \E k \in 1..Len(host.dns[interface]) :
                                 host.dns[interface][k] = TAILSCALE_DNS
               IN IF interface \notin host.ports
                    THEN ~ReadsDns(rec, interface) /\ ~ChangesDns(rec, interface)
                    ELSE /\ ReadsDns(rec, interface)
                         /\ ~DnsFailureOn(rec, interface) =>
                              (ChangesDns(rec, interface) <=> (~present /\ ~rec.dry_run))]_vars

\* Reading the resolvers of Wi-Fi failed and the resolvers of Ethernet were
\* set in the same call.
C27_Witness ==
  /\ Len(calls) >= 1
  /\ LET rec == calls[Len(calls)]
     IN /\ rec.fn = "configure_tailscale_dns" /\ ~rec.raised
        /\ <<"getdnsservers", "Wi-Fi">> \in rec.failed
        /\ ChangesDns(rec, "Ethernet")

\* The call issued socketfilterfw with the option for the path.
IssuedFor(rec, option, path) ==
  \E k \in 1..Len(rec.cmds) : rec.cmds[k] = <<"socketfilterfw", option, path>>

TimesListed(rec) ==
  Cardinality({k \in 1..Len(rec.probes) : rec.probes[k] = <<"socketfilterfw", "--listapps">>})

TailscaledWarning == <<"->", "WARNING: tailscaled path not found, skipping firewall exception">>

\* C28 (firewall exceptions are independent): in a call of configure_firewall
\* with dry_run=false that gets past the firewall switch, the application list
\* is read once for every located path of the fixed list; a path on which
\* nothing failed is unblocked, and added exactly when it was not in the list,
\* whatever failed on the other paths; '--add' is never issued for a path that
\* was in the list; the commands come in the order of the list; when tailscaled
\* is not located the warning is printed and the other four paths are
\* processed; the action does not raise.
C28_IndependentExceptions ==
  [][(IsCallOf("configure_firewall") /\ ~calls'[Len(calls')].dry_run
        /\ \A x \in calls'[Len(calls')].failed : x[1] # "socketfilterfw") =>
       LET rec == calls'[Len(calls')]
           located == "tailscaled" \in host.bins /\ <<"which", "tailscaled">> \notin rec.failed
           paths == (IF located THEN <<TAILSCALED_PATH>> ELSE <<>>) \o FixedServices
           exceptions == SelectSeq(rec.cmds, LAMBDA cmd : cmd[2] \in {"--add", "--unblockapp"})
       IN /\ ~rec.raised
          /\ TimesListed(rec) = Len(paths)
          /\ ~located => /\ \E k \in 1..Len(rec.notes) : rec.notes[k] = TailscaledWarning
                         /\ \A k \in 1..Len(exceptions) : exceptions[k][3] # TAILSCALED_PATH
          /\ \A i \in 1..Len(paths) :
               /\ IssuedFor(rec, "--add", paths[i]) => paths[i] \notin host.fw_apps
               /\ (\A x \in rec.failed : x[2] # paths[i]) =>
                    /\ IssuedFor(rec, "--unblockapp", paths[i])
                    /\ IssuedFor(rec, "--add", paths[i]) <=> paths[i] \notin host.fw_apps
          /\ \A k \in 1..(Len(exceptions) - 1) :
               \E i \in 1..Len(paths), j \in 1..Len(paths) :
                 /\ i <= j /\ exceptions[k][3] = paths[i] /\ exceptions[k + 1][3] = paths[j]]_vars

\* Listing the applications failed for the ARDAgent path and the last path of
\* the list was unblocked in the same call.
C28_Witness ==
  /\ Len(calls) >= 1
  /\ LET rec == calls[Len(calls)]
     IN /\ rec.fn = "configure_firewall" /\ ~rec.dry_run
        /\ <<"--listapps", FixedServices[1]>> \in rec.failed
        /\ IssuedFor(rec, "--unblockapp", FixedServices[Len(FixedServices)])

\* C29 (tmux service checks before it changes anything): a call of
\* setup_tmux_service with dry_run=false for a real user other than root on a
\* host where tmux cannot be located raises without having issued a command
\* and leaves the host as it was (no LaunchAgents directory, no plist, no loaded
\* service), and in a run the run aborts; a call for an empty real user or for
\* root issues no command, leaves the host as it was and does not raise.
C29_TmuxChecksFirst ==
  [][(IsCallOf("setup_tmux_service") /\ ~calls'[Len(calls')].dry_run) =>
       LET rec == calls'[Len(calls')]
       IN IF NoRealUser(host)
            THEN ~rec.raised /\ rec.cmds = <<>> /\ host' = host
            ELSE ("tmux" \notin host.bins \/ <<"which", "tmux">> \in rec.failed) =>
                   /\ rec.raised /\ rec.cmds = <<>> /\ host' = host
                   /\ InRun => pc' = "aborted"]_vars

\* The setting is reported by pmset with a value other than 0.
NeedsChange(h, s) == h.pm[s] \notin {"absent", "0"}

AlreadyConfiguredNotice == <<"[INFO]", "Power settings are already configured to prevent sleep.">>

\* C30 (power settings are changed selectively): a call of
\* configure_power_management in which no command fails issues, with
\* dry_run=false, `pmset -a <setting> 0` for exactly the settings among sleep,
\* disksleep, powernap that are reported with a value other than 0, in that
\* order, and nothing else, and leaves every other setting as it was; with
\* dry_run=true it issues nothing and prints one preview per such setting;
\* when no setting needs a change it issues nothing and prints the 'already
\* configured' notice; and a second call after such a call issues nothing.
C30_SelectivePowerSettings ==
  /\ [][(IsCallOf("configure_power_management") /\ calls'[Len(calls')].failed = {}) =>
          LET rec == calls'[Len(calls')]
              due == {i \in 1..Len(PowerSettings) : NeedsChange(host, PowerSettings[i])}
              previews == {k \in 1..Len(rec.notes) : IsPreview(rec.notes[k])}
          IN /\ ~rec.raised
             /\ Len(rec.cmds) = (IF rec.dry_run THEN 0 ELSE Cardinality(due))
             /\ \A k \in 1..Len(rec.cmds) :
                  \E i \in due :
                    /\ rec.cmds[k] = <<"pmset", "-a", PowerSettings[i], "0">>
                    /\ Cardinality({j \in due : j < i}) = k - 1
             /\ Cardinality(previews) = (IF rec.dry_run THEN Cardinality(due) ELSE 0)
             /\ \A i \in due : rec.dry_run =>
                  \E k \in previews : rec.notes[k] = <<"->", "[DRY RUN]", PowerPreview(PowerSettings[i])>>
             /\ due = {} => \E k \in 1..Len(rec.notes) : rec.notes[k] = AlreadyConfiguredNotice
             /\ \A i \in 1..Len(PowerSettings) :
                  host'.pm[PowerSettings[i]] =
                    IF i \in due /\ ~rec.dry_run THEN "0" ELSE host.pm[PowerSettings[i]]]_vars
  /\ []\A i \in 1..(Len(calls) - 1) :
         ( /\ calls[i].fn = "configure_power_management" /\ calls[i + 1].fn = calls[i].fn
           /\ ~calls[i].dry_run /\ calls[i].failed = {} )
         => calls[i + 1].cmds = <<>>

\* All three settings were set by a first call, and a second call has issued
\* nothing.
C30_Witness ==
  /\ Len(calls) = 2 /\ calls[1].fn = "configure_power_management"
  /\ Len(calls[1].cmds) = 3 /\ calls[1].failed = {}
  /\ calls[2].fn = "configure_power_management" /\ ~calls[2].dry_run /\ calls[2].cmds = <<>>

====
